---- MODULE Spec2Model ----
(***************************************************************************)
(* Model of the dex-services driver:                                       *)
(*   - the event updater of driver/src/orderbook/streamed/                 *)
(*     updating_orderbook.rs (UpdatingOrderbook::new, get_auction_data,    *)
(*     update_with_events_forever, handle_event), specification Spec and,  *)
(*     with the scheduling fairness, FairSpec;                             *)
(*   - the naive solver of driver/src/price_finding/naive_solver.rs,       *)
(*     specification SolverSpec.                                           *)
(***************************************************************************)
EXTENDS Integers, Sequences, FiniteSets, TLC

VARIABLES
    created,          \* futures created by UpdatingOrderbook::new, in creation order
    updaterPc,        \* position of the updater thread
    branch,           \* select_biased! branch being executed: "none", "live", "past"
    cur,              \* event id handled by the running handle_event call (0: none)
    hstep,            \* index in HandleEventSteps of the running handle_event call
    ioResult,         \* outcome of the I/O the updater awaits: "none", "pending", "ok", "err"
    pastQueue,        \* past events the for loop has still to handle
    mutex,            \* holder of the orderbook mutex: "free", "updater", "reader"
    poisoned,         \* the mutex is poisoned
    orderbook,        \* the Orderbook behind the mutex
    orderbook_ready,  \* the AtomicBool orderbook_ready
    exit_tx_dropped,  \* the handle (owner of _exit_tx) has been dropped
    past_events,      \* the fused past-events future
    streamBuf,        \* items the live stream has ready
    delivered,        \* number of items the live stream has produced
    lastLive,         \* id of the last event the live stream produced
    streamPolled,     \* the live stream has been polled
    pastPolled,       \* the past-events future has been polled
    appliedLog,       \* event ids passed to handle_event_data, in call order
    violated,         \* an applied event violated an orderbook invariant
    readerPc,         \* position of the thread calling get_auction_data
    readerResult,     \* result of the last get_auction_data call
    lockView,         \* event ids applied when the reader took the lock
    exitCode,         \* 0 while the process runs, else the code of process::exit
    sOrders,          \* solver input: the orders
    sState,           \* solver input: the account state
    sFee,             \* solver input: the fee
    sResult,          \* solver output
    sOverflowChecks,  \* the solver is built with overflow checks
    pContract,        \* paginated reader: the records of the contract's orderbook
    pPageSize,        \* paginated reader: page_size
    pReader,          \* the PaginatedAuctionDataReader of the running get_auction_data
    pCalls,           \* number of get_auction_data_paginated calls made
    pError,           \* the error a get_auction_data_paginated call returned
    pResult,          \* result of PaginatedStableXOrderBookReader::get_auction_data
    book,             \* orderbook engine: the state the applied events built
    bLog,             \* orderbook engine: the events of the chain delivered to it
    bRedeliveries,    \* orderbook engine: deliveries of an event delivered before
    bSnapshot         \* orderbook engine: result of get_auction_data

updaterVars == <<created, updaterPc, branch, cur, hstep, ioResult, pastQueue, mutex, poisoned,
                 orderbook, orderbook_ready, exit_tx_dropped, past_events,
                 streamBuf, delivered, lastLive, streamPolled, pastPolled,
                 appliedLog, violated, readerPc, readerResult, lockView,
                 exitCode>>
solverVars == <<sOrders, sState, sFee, sResult, sOverflowChecks>>
pagedVars == <<pContract, pPageSize, pReader, pCalls, pError, pResult>>
engineVars == <<book, bLog, bRedeliveries, bSnapshot>>
vars == <<updaterVars, solverVars, pagedVars, engineVars>>

----------------------------------------------------------------------------
(* Bounds *)

NumEvents == 3      \* events in the contract's log
MaxLive == 2        \* items the live stream produces
MaxOrderKey == 2    \* distinct (owner, index) order keys

EventIds == 1..NumEvents
OrderKeys == 1..MaxOrderKey

----------------------------------------------------------------------------
(* Events and their metadata *)

\* meta.block_number and meta.log_index of the event with the given id: two
\* events per block, ids are ranks in the (block_number, log_index) order.
BlockNumber(e) == (e + 1) \div 2
LogIndex(e) == (e + 1) % 2

\* a is strictly earlier than b in the (block_number, log_index) order
Earlier(a, b) ==
    \/ BlockNumber(a) < BlockNumber(b)
    \/ BlockNumber(a) = BlockNumber(b) /\ LogIndex(a) < LogIndex(b)

\* Event<batch_exchange::Event>: data of event id, meta Some or None
EventItem(e, m) == [kind |-> "event", id |-> e, meta |-> m]
ErrorItem == [kind |-> "error", id |-> 0, meta |-> FALSE]
EndItem == [kind |-> "end", id |-> 0, meta |-> FALSE]

\* results of the past-events future: an error, or the log up to event p,
\* with at most one event that lost its metadata
PastList(p, bad) == [i \in 1..p |-> EventItem(i, i # bad)]
PastResults ==
    {[ok |-> FALSE, events |-> <<>>]} \cup
    {[ok |-> TRUE, events |-> PastList(p, bad)] : p \in 0..NumEvents, bad \in 0..NumEvents}

NoResult == [kind |-> "none", events |-> {}, orders |-> {}, partial |-> FALSE]

----------------------------------------------------------------------------
(* Orderbook (driver/src/orderbook/streamed/orderbook.rs is not part of the
   sources; its event application follows spec.md 4.3) *)

EmptyOrderbook == [events |-> {}, orders |-> {}, partial |-> FALSE]

\* the contract's log: event e is the OrderPlacement of the order key
\* OrderKeyOf(e); events MaxOrderKey apart place the same key
OrderKeyOf(e) == ((e - 1) % MaxOrderKey) + 1

\* the event places an order whose key another event has already placed
IsDuplicateOrder(ob, e) == e \notin ob.events /\ OrderKeyOf(e) \in ob.orders

\* Orderbook::handle_event_data: OrderPlacement of key OrderKeyOf(e)
ApplyEventData(ob, e) ==
    IF e \in ob.events THEN [ob EXCEPT !.partial = FALSE]
    ELSE IF OrderKeyOf(e) \in ob.orders
         THEN [ob EXCEPT !.events = @ \cup {e}, !.partial = FALSE]
         ELSE [events |-> ob.events \cup {e},
               orders |-> ob.orders \cup {OrderKeyOf(e)},
               partial |-> FALSE]

\* Orderbook::get_auction_data
Snapshot(ob) ==
    [kind |-> "snapshot", events |-> ob.events, orders |-> ob.orders,
     partial |-> ob.partial]

----------------------------------------------------------------------------
(* Initial state *)

UpdaterInit ==
    /\ created = <<>>
    /\ updaterPc = "not_spawned"
    /\ branch = "none"
    /\ cur = 0
    /\ hstep = 0
    /\ ioResult = "none"
    /\ pastQueue = <<>>
    /\ mutex = "free"
    /\ poisoned = FALSE
    /\ orderbook = EmptyOrderbook
    /\ orderbook_ready = FALSE
    /\ exit_tx_dropped = FALSE
    /\ past_events = [state |-> "absent", result |-> [ok |-> FALSE, events |-> <<>>]]
    /\ streamBuf = <<>>
    /\ delivered = 0
    /\ lastLive = 0
    /\ streamPolled = FALSE
    /\ pastPolled = FALSE
    /\ appliedLog = <<>>
    /\ violated = FALSE
    /\ readerPc = "no_handle"
    /\ readerResult = NoResult
    /\ lockView = {}
    /\ exitCode = 0

\* fee: Option<Fee> is None
NoFee == [kind |-> "no_fee"]

\* find_prices has not been called
NotRun == [kind |-> "not_run"]

\* PaginatedAuctionDataReader::new: the cursor at the zero address, nothing read
NewReader ==
    [previous_page_user |-> 0, previous_page_user_offset |-> 0,
     account_state |-> <<>>, orders |-> <<>>, done |-> FALSE]

\* the orderbook engine before any event
EmptyBook ==
    [seen |-> {}, orders |-> <<>>, liquid |-> <<>>, deposits |-> <<>>,
     withdrawals |-> <<>>, violated |-> FALSE]

\* the orderbook engine is not in use
EngineIdle ==
    /\ book = EmptyBook
    /\ bLog = <<>>
    /\ bRedeliveries = 0
    /\ bSnapshot = NotRun

\* the paginated reader is not in use
PagedIdle ==
    /\ pContract = <<>>
    /\ pPageSize = 0
    /\ pReader = NewReader
    /\ pCalls = 0
    /\ pError = "none"
    /\ pResult = NotRun

\* the solver is not in use
SolverIdle ==
    /\ sOrders = <<>>
    /\ sState = <<>>
    /\ sFee = NoFee
    /\ sResult = NotRun
    /\ sOverflowChecks = FALSE

Init ==
    /\ UpdaterInit
    /\ SolverIdle
    /\ PagedIdle
    /\ EngineIdle

----------------------------------------------------------------------------
(* Frames *)

inputVars == <<solverVars, pagedVars, engineVars>>
readerVars == <<readerPc, readerResult, lockView>>
streamVars == <<streamBuf, delivered, lastLive>>
polledVars == <<streamPolled, pastPolled>>
bookVars == <<orderbook, appliedLog, violated>>
lockVars == <<mutex, poisoned>>
callVars == <<branch, cur, hstep, pastQueue>>

Alive == exitCode = 0

\* the updater thread has ended (returned Ok, exited the process, or panicked)
UpdaterTerminal == {"returned_ok", "process_exit", "unwound"}
UpdaterRunning ==
    updaterPc \notin UpdaterTerminal \cup {"not_spawned", "returned_err"}

----------------------------------------------------------------------------
(* UpdatingOrderbook::new *)

\* the stream is created first, then the past-events future
CreationOrder == <<"stream", "past_events">>

New_Create ==
    /\ Alive
    /\ Len(created) < Len(CreationOrder)
    /\ created' = Append(created, CreationOrder[Len(created) + 1])
    /\ past_events' =
         IF CreationOrder[Len(created) + 1] = "past_events"
         THEN [past_events EXCEPT !.state = "created"]
         ELSE past_events
    /\ UNCHANGED <<updaterPc, callVars, ioResult, lockVars, bookVars,
                   orderbook_ready, exit_tx_dropped, streamVars, polledVars,
                   readerVars, exitCode, inputVars>>

\* std::thread::spawn of the updater; `new` returns the handle
New_Spawn ==
    /\ Alive
    /\ Len(created) = Len(CreationOrder)
    /\ updaterPc = "not_spawned"
    /\ updaterPc' = "select"
    /\ readerPc' = "idle"
    /\ UNCHANGED <<created, callVars, ioResult, lockVars, bookVars,
                   orderbook_ready, exit_tx_dropped, past_events, streamVars,
                   polledVars, readerResult, lockView, exitCode, inputVars>>

----------------------------------------------------------------------------
(* Environment: the node behind the stream, the past-events query and the
   block timestamp reader *)

\* the filter exists on the node once the stream has been polled; events
\* come in (block_number, log_index) order
StreamItems ==
    {EventItem(e, m) : e \in {x \in EventIds : x > lastLive}, m \in BOOLEAN}
        \cup {ErrorItem, EndItem}

StreamDeliver(item) ==
    /\ Alive
    /\ UpdaterRunning
    /\ streamPolled
    /\ delivered < MaxLive
    /\ lastLive <= NumEvents
    /\ streamBuf' = Append(streamBuf, item)
    /\ delivered' = delivered + 1
    /\ lastLive' = CASE item.kind = "event" -> item.id
                     [] item.kind = "end" -> NumEvents + 1
                     [] OTHER -> lastLive
    /\ UNCHANGED <<created, updaterPc, callVars, ioResult, lockVars, bookVars,
                   orderbook_ready, exit_tx_dropped, past_events, polledVars,
                   readerVars, exitCode, inputVars>>

\* the query is sent when the future is first polled
PastEventsResolve(r) ==
    /\ Alive
    /\ UpdaterRunning
    /\ past_events.state = "pending"
    /\ past_events' = [state |-> "ready", result |-> r]
    /\ UNCHANGED <<created, updaterPc, callVars, ioResult, lockVars, bookVars,
                   orderbook_ready, exit_tx_dropped, streamVars, polledVars,
                   readerVars, exitCode, inputVars>>

\* prepare_cache or block_timestamp completes, with Ok or Err
IoComplete(r) ==
    /\ Alive
    /\ ioResult = "pending"
    /\ ioResult' = r
    /\ UNCHANGED <<created, updaterPc, callVars, lockVars, bookVars,
                   orderbook_ready, exit_tx_dropped, past_events, streamVars,
                   polledVars, readerVars, exitCode, inputVars>>

----------------------------------------------------------------------------
(* update_with_events_forever *)

\* mutant: the past-events future is polled before the stream
SelectBiased_PastFirst ==
    IF exit_tx_dropped THEN "exit"
    ELSE IF past_events.state = "ready" THEN "past_events"
    ELSE IF streamBuf # <<>> THEN "stream"
    ELSE "pending"

\* mutant: the stream is polled before the exit indicator
SelectBiased_StreamFirst ==
    IF streamBuf # <<>> THEN "stream"
    ELSE IF exit_tx_dropped THEN "exit"
    ELSE IF past_events.state = "ready" THEN "past_events"
    ELSE "pending"

\* mutant: a completed past-events future is polled again
SelectBiased_Unfused ==
    IF exit_tx_dropped THEN "exit"
    ELSE IF streamBuf # <<>> THEN "stream"
    ELSE IF past_events.state \in {"ready", "terminated"} THEN "past_events"
    ELSE "pending"

\* select_biased!: the first ready future in the order exit_indicator,
\* stream.next(), past_events; a terminated (fused) future is skipped
SelectBiased ==
    IF exit_tx_dropped THEN "exit"
    ELSE IF streamBuf # <<>> THEN "stream"
    ELSE IF past_events.state = "ready" THEN "past_events"
    ELSE "pending"

\* mutant: an error is logged and the loop goes on
ReturnErr_Retry ==
    /\ updaterPc' = "select"
    /\ branch' = "none"
    /\ cur' = 0
    /\ hstep' = 0
    /\ pastQueue' = <<>>
    /\ ioResult' = "none"
    /\ mutex' = IF mutex = "updater" THEN "free" ELSE mutex

\* `?` on an Err: the function returns Err, dropping a held lock guard
ReturnErr ==
    /\ updaterPc' = "returned_err"
    /\ branch' = "none"
    /\ cur' = 0
    /\ hstep' = 0
    /\ pastQueue' = <<>>
    /\ ioResult' = "none"
    /\ mutex' = IF mutex = "updater" THEN "free" ELSE mutex

\* event.ok_or(..)?? yields an event and handle_event finds Some(meta)
StreamItemOk(item) == item.kind = "event" /\ item.meta

\* mutant: the metadata of the past events is not looked at before the loop
PastResultOk_OkOnly(r) == r.ok

\* past_events? is Ok and every event has metadata
PastResultOk(r) == r.ok /\ \A i \in 1..Len(r.events) : r.events[i].meta

\* mutant: the lock is taken before the block timestamp is awaited
HandleEventSteps_LockFirst ==
    <<"lock", "block_timestamp", "handle_event_data", "handle_event_data_done">>

\* the statements of handle_event, in order; the lock guard is a temporary
\* of the handle_event_data statement and is dropped when it ends
HandleEventSteps ==
    <<"block_timestamp", "lock", "handle_event_data", "handle_event_data_done">>

InStep(name) ==
    /\ updaterPc = "handle_event"
    /\ HandleEventSteps[hstep] = name

\* mutant: the orderbook is shared without mutual exclusion
CanLock_NoExclusion(who) == TRUE

\* Mutex::lock blocks while another thread holds the mutex
CanLock(who) == mutex = "free"

\* mutant: the loop takes the events from the end of the list
NextPastEvent_LastFirst ==
    IF pastQueue = <<>>
    THEN /\ updaterPc' = "store_ready"
         /\ cur' = 0
         /\ hstep' = 0
         /\ UNCHANGED <<pastQueue, branch>>
    ELSE /\ updaterPc' = "handle_event"
         /\ cur' = pastQueue[Len(pastQueue)]
         /\ pastQueue' = SubSeq(pastQueue, 1, Len(pastQueue) - 1)
         /\ hstep' = 1
         /\ UNCHANGED branch

\* the for loop over past_events: the next event, or the end of the loop
NextPastEvent ==
    IF pastQueue = <<>>
    THEN /\ updaterPc' = "store_ready"
         /\ cur' = 0
         /\ hstep' = 0
         /\ UNCHANGED <<pastQueue, branch>>
    ELSE /\ updaterPc' = "handle_event"
         /\ cur' = Head(pastQueue)
         /\ pastQueue' = Tail(pastQueue)
         /\ hstep' = 1
         /\ UNCHANGED branch

\* handle_event returned Ok(())
FinishHandleEvent ==
    IF branch = "live"
    THEN /\ updaterPc' = "select"
         /\ branch' = "none"
         /\ cur' = 0
         /\ hstep' = 0
         /\ UNCHANGED pastQueue
    ELSE NextPastEvent

Advance ==
    IF hstep < Len(HandleEventSteps)
    THEN /\ hstep' = hstep + 1
         /\ UNCHANGED <<updaterPc, branch, cur, pastQueue>>
    ELSE FinishHandleEvent

SelectExit ==
    /\ Alive
    /\ updaterPc = "select"
    /\ SelectBiased = "exit"
    /\ updaterPc' = "returned_ok"
    /\ UNCHANGED <<created, callVars, ioResult, lockVars, bookVars,
                   orderbook_ready, exit_tx_dropped, past_events, streamVars,
                   polledVars, readerVars, exitCode, inputVars>>

SelectStream ==
    /\ Alive
    /\ updaterPc = "select"
    /\ SelectBiased = "stream"
    /\ streamBuf' = Tail(streamBuf)
    /\ streamPolled' = TRUE
    /\ IF StreamItemOk(Head(streamBuf))
       THEN /\ updaterPc' = "handle_event"
            /\ branch' = "live"
            /\ cur' = Head(streamBuf).id
            /\ hstep' = 1
            /\ UNCHANGED <<pastQueue, ioResult, mutex>>
       ELSE ReturnErr
    /\ UNCHANGED <<created, poisoned, bookVars, orderbook_ready,
                   exit_tx_dropped, past_events, delivered, lastLive,
                   pastPolled, readerVars, exitCode, inputVars>>

SelectPastEvents ==
    /\ Alive
    /\ updaterPc = "select"
    /\ SelectBiased = "past_events"
    /\ past_events' = [past_events EXCEPT !.state = "terminated"]
    /\ streamPolled' = TRUE
    /\ pastPolled' = TRUE
    /\ IF PastResultOk(past_events.result)
       THEN /\ updaterPc' = "prepare_cache"
            /\ branch' = "past"
            /\ pastQueue' = [i \in 1..Len(past_events.result.events) |->
                                past_events.result.events[i].id]
            /\ ioResult' = "pending"
            /\ UNCHANGED <<cur, hstep, mutex>>
       ELSE ReturnErr
    /\ UNCHANGED <<created, poisoned, bookVars, orderbook_ready,
                   exit_tx_dropped, streamVars, readerVars, exitCode,
                   inputVars>>

\* no future is ready: the first poll installs the stream's filter and sends
\* the past-events query, then the task sleeps
SelectPending ==
    /\ Alive
    /\ updaterPc = "select"
    /\ SelectBiased = "pending"
    /\ ~streamPolled \/ past_events.state = "created"
    /\ streamPolled' = TRUE
    /\ pastPolled' = (pastPolled \/ past_events.state \in {"created", "pending"})
    /\ past_events' = IF past_events.state = "created"
                      THEN [past_events EXCEPT !.state = "pending"]
                      ELSE past_events
    /\ UNCHANGED <<created, updaterPc, callVars, ioResult, lockVars, bookVars,
                   orderbook_ready, exit_tx_dropped, streamVars, readerVars,
                   exitCode, inputVars>>

PrepareCacheResume ==
    /\ Alive
    /\ updaterPc = "prepare_cache"
    /\ ioResult \in {"ok", "err"}
    /\ IF ioResult = "ok"
       THEN /\ ioResult' = "none"
            /\ NextPastEvent
            /\ UNCHANGED mutex
       ELSE ReturnErr
    /\ UNCHANGED <<created, poisoned, bookVars, orderbook_ready,
                   exit_tx_dropped, past_events, streamVars, polledVars,
                   readerVars, exitCode, inputVars>>

StoreReady ==
    /\ Alive
    /\ updaterPc = "store_ready"
    /\ orderbook_ready' = TRUE
    /\ updaterPc' = "select"
    /\ branch' = "none"
    /\ UNCHANGED <<created, cur, hstep, pastQueue, ioResult, lockVars,
                   bookVars, exit_tx_dropped, past_events, streamVars,
                   polledVars, readerVars, exitCode, inputVars>>

\* the spawned closure: log the error, sleep, process::exit(1)
ProcessExit ==
    /\ Alive
    /\ updaterPc = "returned_err"
    /\ updaterPc' = "process_exit"
    /\ exitCode' = 1
    /\ UNCHANGED <<created, callVars, ioResult, lockVars, bookVars,
                   orderbook_ready, exit_tx_dropped, past_events, streamVars,
                   polledVars, readerVars, inputVars>>

----------------------------------------------------------------------------
(* handle_event *)

HE_CallBlockTimestamp ==
    /\ Alive
    /\ InStep("block_timestamp")
    /\ ioResult = "none"
    /\ ioResult' = "pending"
    /\ UNCHANGED <<created, updaterPc, callVars, lockVars, bookVars,
                   orderbook_ready, exit_tx_dropped, past_events, streamVars,
                   polledVars, readerVars, exitCode, inputVars>>

HE_BlockTimestampResume ==
    /\ Alive
    /\ InStep("block_timestamp")
    /\ ioResult \in {"ok", "err"}
    /\ IF ioResult = "ok"
       THEN /\ ioResult' = "none"
            /\ Advance
            /\ UNCHANGED mutex
       ELSE ReturnErr
    /\ UNCHANGED <<created, poisoned, bookVars, orderbook_ready,
                   exit_tx_dropped, past_events, streamVars, polledVars,
                   readerVars, exitCode, inputVars>>

HE_Lock ==
    /\ Alive
    /\ InStep("lock")
    /\ CanLock("updater")
    /\ IF poisoned
       THEN ReturnErr
       ELSE /\ mutex' = "updater"
            /\ Advance
            /\ UNCHANGED ioResult
    /\ UNCHANGED <<created, poisoned, bookVars, orderbook_ready,
                   exit_tx_dropped, past_events, streamVars, polledVars,
                   readerVars, exitCode, inputVars>>

\* Orderbook::handle_event_data starts to change the orderbook
HE_HandleEventData ==
    /\ Alive
    /\ InStep("handle_event_data")
    /\ orderbook' = [orderbook EXCEPT !.partial = TRUE]
    /\ Advance
    /\ UNCHANGED <<created, ioResult, lockVars, appliedLog, violated,
                   orderbook_ready, exit_tx_dropped, past_events, streamVars,
                   polledVars, readerVars, exitCode, inputVars>>

\* Orderbook::handle_event_data panics: the thread unwinds, the guard is
\* dropped while panicking and poisons the mutex
HE_HandleEventDataPanic ==
    /\ Alive
    /\ InStep("handle_event_data")
    /\ orderbook' = [orderbook EXCEPT !.partial = TRUE]
    /\ updaterPc' = "unwound"
    /\ branch' = "none"
    /\ cur' = 0
    /\ hstep' = 0
    /\ pastQueue' = <<>>
    /\ poisoned' = (poisoned \/ mutex = "updater")
    /\ mutex' = IF mutex = "updater" THEN "free" ELSE mutex
    /\ UNCHANGED <<created, ioResult, appliedLog, violated, orderbook_ready,
                   exit_tx_dropped, past_events, streamVars, polledVars,
                   readerVars, exitCode, inputVars>>

\* Orderbook::handle_event_data returns, its result is discarded, the guard
\* is dropped and handle_event returns Ok(())
HE_HandleEventDataDone ==
    /\ Alive
    /\ InStep("handle_event_data_done")
    /\ orderbook' = ApplyEventData(orderbook, cur)
    /\ appliedLog' = Append(appliedLog, cur)
    /\ violated' = (violated \/ IsDuplicateOrder(orderbook, cur))
    /\ mutex' = IF mutex = "updater" THEN "free" ELSE mutex
    /\ Advance
    /\ UNCHANGED <<created, ioResult, poisoned, orderbook_ready,
                   exit_tx_dropped, past_events, streamVars, polledVars,
                   readerVars, exitCode, inputVars>>

----------------------------------------------------------------------------
(* UpdatingOrderbook::get_auction_data and the drop of the handle *)

NotReadyResult == [NoResult EXCEPT !.kind = "not_ready"]
PoisonResult == [NoResult EXCEPT !.kind = "poison"]

\* mutant: the ready check is missing
EnsureReady_Skipped == TRUE

\* ensure!(self.orderbook_ready.load(SeqCst), ..)
EnsureReady == orderbook_ready

GetAuctionData_EnsureReady ==
    /\ Alive
    /\ readerPc = "idle"
    /\ IF EnsureReady
       THEN readerPc' = "lock" /\ readerResult' = NoResult
       ELSE readerPc' = "idle" /\ readerResult' = NotReadyResult
    /\ UNCHANGED <<created, updaterPc, callVars, ioResult, lockVars, bookVars,
                   orderbook_ready, exit_tx_dropped, past_events, streamVars,
                   polledVars, lockView, exitCode, inputVars>>

GetAuctionData_Lock ==
    /\ Alive
    /\ readerPc = "lock"
    /\ CanLock("reader")
    /\ IF poisoned
       THEN /\ readerPc' = "idle"
            /\ readerResult' = PoisonResult
            /\ UNCHANGED <<mutex, lockView>>
       ELSE /\ readerPc' = "read"
            /\ mutex' = "reader"
            /\ lockView' = {appliedLog[i] : i \in 1..Len(appliedLog)}
            /\ UNCHANGED readerResult
    /\ UNCHANGED <<created, updaterPc, callVars, ioResult, poisoned, bookVars,
                   orderbook_ready, exit_tx_dropped, past_events, streamVars,
                   polledVars, exitCode, inputVars>>

GetAuctionData_Read ==
    /\ Alive
    /\ readerPc = "read"
    /\ readerResult' = Snapshot(orderbook)
    /\ readerPc' = "idle"
    /\ mutex' = IF mutex = "reader" THEN "free" ELSE mutex
    /\ UNCHANGED <<created, updaterPc, callVars, ioResult, poisoned, bookVars,
                   orderbook_ready, exit_tx_dropped, past_events, streamVars,
                   polledVars, lockView, exitCode, inputVars>>

\* Orderbook::get_auction_data panics in the calling thread: the guard is
\* dropped while panicking and poisons the mutex
GetAuctionData_Panic ==
    /\ Alive
    /\ readerPc = "read"
    /\ readerPc' = "panicked"
    /\ poisoned' = TRUE
    /\ mutex' = IF mutex = "reader" THEN "free" ELSE mutex
    /\ UNCHANGED <<created, updaterPc, callVars, ioResult, bookVars,
                   orderbook_ready, exit_tx_dropped, past_events, streamVars,
                   polledVars, readerResult, lockView, exitCode, inputVars>>

\* the UpdatingOrderbook is dropped, and _exit_tx with it
DropHandle ==
    /\ Alive
    /\ readerPc = "idle"
    /\ readerPc' = "dropped"
    /\ exit_tx_dropped' = TRUE
    /\ UNCHANGED <<created, updaterPc, callVars, ioResult, lockVars, bookVars,
                   orderbook_ready, past_events, streamVars, polledVars,
                   readerResult, lockView, exitCode, inputVars>>

----------------------------------------------------------------------------
(* Specification of the updater *)

UpdaterStep ==
    \/ SelectExit
    \/ SelectStream
    \/ SelectPastEvents
    \/ SelectPending
    \/ PrepareCacheResume
    \/ StoreReady
    \/ ProcessExit
    \/ HE_CallBlockTimestamp
    \/ HE_BlockTimestampResume
    \/ HE_Lock
    \/ HE_HandleEventData
    \/ HE_HandleEventDataPanic
    \/ HE_HandleEventDataDone

Next ==
    \/ New_Create
    \/ New_Spawn
    \/ \E item \in StreamItems : StreamDeliver(item)
    \/ \E r \in PastResults : PastEventsResolve(r)
    \/ \E r \in {"ok", "err"} : IoComplete(r)
    \/ UpdaterStep
    \/ GetAuctionData_EnsureReady
    \/ GetAuctionData_Lock
    \/ GetAuctionData_Read
    \/ GetAuctionData_Panic
    \/ DropHandle

Spec == Init /\ [][Next]_vars

\* the scheduler runs the updater thread and the reader when they can take
\* a step, and an I/O operation that was started completes
FairSpec ==
    /\ Spec
    /\ WF_vars(UpdaterStep)
    /\ WF_vars(\E r \in {"ok", "err"} : IoComplete(r))
    /\ WF_vars(GetAuctionData_Read)

----------------------------------------------------------------------------
(* Claims about the updater *)

AppliedIds == {appliedLog[i] : i \in 1..Len(appliedLog)}
PastIds ==
    {past_events.result.events[i].id : i \in 1..Len(past_events.result.events)}

\* C1: the updater applies events in (block_number, log_index) order over
\* the whole run, past and live together: no event is applied after an event
\* that is later in that order.
C1_AppliedInOrder ==
    \A i, j \in 1..Len(appliedLog) :
        i < j => ~Earlier(appliedLog[j], appliedLog[i])

\* C2: get_auction_data returns a snapshot only when the ready flag is set,
\* and the flag is set only after every event of the past-events result has
\* been applied; before that the call fails with the not-ready error.
C2_NotReadyBeforePastApplied ==
    /\ orderbook_ready =>
         /\ past_events.state = "terminated"
         /\ PastResultOk(past_events.result)
         /\ PastIds \subseteq AppliedIds
         /\ branch # "past"
    /\ readerPc \in {"lock", "read"} => orderbook_ready
    /\ readerResult.kind \in {"snapshot", "poison"} =>
         /\ orderbook_ready
         /\ readerResult.kind = "snapshot" => PastIds \subseteq readerResult.events

\* a call during the replay of the past events was refused
C2_Witness ==
    /\ readerResult.kind = "not_ready"
    /\ branch = "past"
    /\ appliedLog # <<>>
    /\ pastQueue # <<>>

\* the updater takes a step that consumes an error
C3_ErrorStep ==
    \/ /\ streamBuf # <<>>
       /\ streamBuf' = Tail(streamBuf)
       /\ ~(Head(streamBuf).kind = "event" /\ Head(streamBuf).meta)
    \/ /\ past_events.state = "ready"
       /\ past_events'.state = "terminated"
       /\ \/ ~past_events.result.ok
          \/ \E i \in 1..Len(past_events.result.events) :
                ~past_events.result.events[i].meta
    \/ /\ ioResult = "err"
       /\ ioResult' # "err"
    \/ /\ updaterPc = "handle_event"
       /\ HandleEventSteps[hstep] = "lock"
       /\ poisoned
       /\ <<updaterPc, hstep>>' # <<updaterPc, hstep>>

\* C3: any error in the update loop makes update_with_events_forever return
\* an error without applying a further event; the loop never goes on after
\* it, and the process then exits with code 1.
C3_ErrorIsFatal ==
    /\ [][C3_ErrorStep =>
            /\ updaterPc' = "returned_err"
            /\ UNCHANGED <<orderbook, appliedLog>>]_vars
    /\ [][updaterPc = "returned_err" =>
            /\ updaterPc' \in {"returned_err", "process_exit"}
            /\ UNCHANGED <<orderbook, appliedLog>>]_vars
    /\ [][updaterPc' = "process_exit" => exitCode' = 1]_vars
    /\ [](exitCode # 0 => updaterPc = "process_exit")
    /\ (updaterPc = "returned_err") ~> (exitCode = 1)

\* the process exited after an error that followed applied events
C3_Witness ==
    /\ exitCode = 1
    /\ updaterPc = "process_exit"
    /\ appliedLog # <<>>

\* C4: a panic inside the updater thread leads to process exit with a
\* nonzero code: the process never goes on serving get_auction_data calls
\* with the updater thread dead.
C4_PanicExitsProcess ==
    (updaterPc = "unwound" /\ readerResult.kind = "poison") => exitCode # 0

\* C5: when applying an event violates an orderbook invariant, the update
\* loop stops: the updater never applies a later event after the violation.
C5_ViolationIsFatal ==
    [][violated => appliedLog' = appliedLog]_vars

\* the updater takes a step of the select
C6_SelectStep ==
    /\ updaterPc = "select"
    /\ \/ updaterPc' # "select"
       \/ <<streamPolled, pastPolled>>' # <<streamPolled, pastPolled>>

\* C6: the select takes the exit signal before a live event and a live
\* event before the past-events result; an iteration not ended by the exit
\* signal polls the stream; the stream is created and polled before the
\* past-events future is.
C6_BiasedSelection ==
    /\ [][C6_SelectStep =>
            /\ exit_tx_dropped => updaterPc' = "returned_ok"
            /\ ~exit_tx_dropped => streamPolled'
            /\ (~exit_tx_dropped /\ streamBuf # <<>>) =>
                   /\ streamBuf' = Tail(streamBuf)
                   /\ past_events' = past_events]_vars
    /\ [](pastPolled => streamPolled)
    /\ [](past_events.state # "absent" => "stream" \in {created[i] : i \in 1..Len(created)})

\* a live event is handled while the past-events result waits
C6_Witness ==
    /\ past_events.state = "ready"
    /\ branch = "live"
    /\ updaterPc = "handle_event"
    /\ ~exit_tx_dropped

\* C7: after the handle is dropped the updater returns Ok at the next poll
\* of the select, applies no event from then on and does not exit the
\* process; under fairness the updater terminates.
C7_DropStopsUpdater ==
    /\ [][(exit_tx_dropped /\ updaterPc = "select") =>
              updaterPc' \in {"select", "returned_ok"}]_vars
    /\ [][updaterPc = "returned_ok" =>
            /\ updaterPc' = "returned_ok"
            /\ exitCode' = 0
            /\ UNCHANGED <<orderbook, appliedLog, streamBuf>>]_vars
    /\ [](updaterPc = "returned_ok" => exit_tx_dropped)
    /\ exit_tx_dropped ~> (updaterPc \in UpdaterTerminal)

\* the updater returned Ok and left a live event unapplied
C7_Witness ==
    /\ updaterPc = "returned_ok"
    /\ streamBuf # <<>>
    /\ Head(streamBuf).kind = "event"
    /\ exitCode = 0

\* C8: a get_auction_data call that passed the ready check reads, under the
\* mutex, an orderbook holding every event applied before it took the lock,
\* none applied after, and no partially applied event.
C8_SnapshotAtomic ==
    /\ readerPc = "read" => (mutex = "reader" /\ ~orderbook.partial)
    /\ readerResult.kind = "snapshot" =>
         /\ ~readerResult.partial
         /\ lockView \subseteq readerResult.events
         /\ readerResult.events \subseteq lockView

\* a snapshot with events was read while the updater was handling an event
C8_Witness ==
    /\ readerResult.kind = "snapshot"
    /\ readerResult.events # {}
    /\ updaterPc = "handle_event"
    /\ mutex = "updater"

\* the updater is suspended: at the select, or awaiting prepare_cache or a
\* block timestamp
C9_Suspended ==
    \/ updaterPc \in {"select", "prepare_cache"}
    \/ ioResult # "none"

\* C9: the orderbook mutex is never held across I/O: at every suspension
\* point of the updater the mutex is not held by the updater.
C9_NoLockAcrossIo == C9_Suspended => mutex # "updater"

\* the reader holds the mutex while the updater awaits a block timestamp
C9_Witness ==
    /\ InStep("block_timestamp")
    /\ ioResult = "pending"
    /\ mutex = "reader"

\* the updater executes orderbook_ready.store(true)
C34_StoreStep == updaterPc = "store_ready" /\ updaterPc' # "store_ready"

\* C34: the ready flag starts false, changes only to true and only by the
\* store at the end of the past-events branch, which runs at most once: the
\* past-events future, once completed, is not polled again. The flag is never
\* set back to false, also after an error has ended the updater.
C34_ReadyMonotonic ==
    /\ [](created = <<>> => ~orderbook_ready)
    /\ [][orderbook_ready => orderbook_ready']_vars
    /\ [][orderbook_ready' # orderbook_ready =>
              C34_StoreStep /\ branch = "past"]_vars
    /\ [][C34_StoreStep => ~orderbook_ready /\ orderbook_ready']_vars
    /\ [][past_events.state = "terminated" => past_events'.state = "terminated"]_vars

\* the flag is set and the process has exited on a later error
C34_Witness ==
    /\ orderbook_ready
    /\ updaterPc = "process_exit"
    /\ exitCode = 1

\* the ids of the past-events result, in the order of the returned list
PastSeq == [i \in 1..Len(past_events.result.events) |-> past_events.result.events[i].id]

\* the number of past events the running past-events branch has applied
PastApplied ==
    Len(PastSeq) - Len(pastQueue) - (IF updaterPc = "handle_event" THEN 1 ELSE 0)

\* C35: while the past-events branch runs, the events applied since it
\* started are the first events of the returned list, in its order, with
\* nothing else in between; the branch goes on to the next past event, to
\* the store of the ready flag or to an error, never back to the select and
\* never to the return on the exit signal; and a live event is applied after
\* the past-events result was taken only when the ready flag is set.
C35_PastEventsUninterrupted ==
    /\ [](branch = "past" =>
             /\ PastApplied \in 0..Len(appliedLog)
             /\ SubSeq(appliedLog, Len(appliedLog) - PastApplied + 1, Len(appliedLog))
                    = SubSeq(PastSeq, 1, PastApplied))
    /\ [][(branch = "past" /\ updaterPc # "store_ready") =>
              updaterPc' \in {"prepare_cache", "handle_event", "store_ready",
                              "returned_err", "unwound"}]_vars
    /\ [][(branch = "past" /\ updaterPc = "store_ready") =>
              (updaterPc' = "store_ready" \/ orderbook_ready')]_vars
    /\ [][(appliedLog' # appliedLog /\ branch = "live"
              /\ past_events.state = "terminated") => orderbook_ready]_vars

\* during the replay, after a past event was applied and before the last
\* one is, a live event waits in the stream and the handle has been dropped
C35_Witness ==
    /\ branch = "past"
    /\ PastApplied >= 1
    /\ pastQueue # <<>>
    /\ streamBuf # <<>>
    /\ Head(streamBuf).kind = "event"
    /\ exit_tx_dropped

\* the past-events query succeeded with an event that has no metadata
PastLacksMeta ==
    /\ past_events.state \in {"ready", "terminated"}
    /\ past_events.result.ok
    /\ \E i \in 1..Len(past_events.result.events) :
          ~past_events.result.events[i].meta

\* handle_event fails on the block timestamp or on an event without metadata
C36_EventFails ==
    \/ /\ InStep("block_timestamp")
       /\ ioResult = "err"
       /\ ioResult' # "err"
    \/ /\ updaterPc = "select"
       /\ streamBuf # <<>>
       /\ streamBuf' = Tail(streamBuf)
       /\ Head(streamBuf).kind = "event"
       /\ ~Head(streamBuf).meta

\* C36: the updater takes the orderbook lock only in handle_event, after the
\* block timestamp of the event has been resolved, and holds no lock while
\* the timestamp is looked up; a failed lookup or an event without metadata
\* leaves the orderbook as it was, and no event is applied after it; when a
\* past event has no metadata the past-events branch applies no event and
\* the ready flag stays false.
C36_TimestampFirstFailureStops ==
    /\ [][(mutex # "updater" /\ mutex' = "updater") =>
              /\ InStep("lock")
              /\ ioResult = "none"
              /\ hstep > 1
              /\ HandleEventSteps[hstep - 1] = "block_timestamp"]_vars
    /\ [](InStep("block_timestamp") => mutex # "updater")
    /\ [][C36_EventFails =>
              /\ UNCHANGED <<orderbook, appliedLog>>
              /\ updaterPc' = "returned_err"]_vars
    /\ [][(updaterPc = "returned_err" \/ updaterPc = "process_exit") =>
              /\ orderbook' = orderbook
              /\ appliedLog' = appliedLog]_vars
    /\ [](PastLacksMeta => branch # "past" /\ ~orderbook_ready)
    /\ [][(PastLacksMeta /\ past_events.state = "ready"
              /\ past_events'.state = "terminated") =>
              /\ UNCHANGED <<orderbook, appliedLog>>
              /\ updaterPc' = "returned_err"]_vars

\* the updater has ended on a past-events result whose second event has no
\* metadata, after live events had been applied
C36_Witness ==
    /\ PastLacksMeta
    /\ past_events.state = "terminated"
    /\ past_events.result.events[1].meta
    /\ updaterPc = "process_exit"
    /\ appliedLog # <<>>
    /\ ~orderbook_ready

\* a timestamp lookup has failed during the replay of the past events
C36_WitnessTimestamp ==
    /\ updaterPc = "returned_err"
    /\ past_events.state = "terminated"
    /\ ~PastLacksMeta
    /\ past_events.result.ok
    /\ appliedLog # <<>>
    /\ ~orderbook_ready

----------------------------------------------------------------------------
(* The naive solver: driver/src/price_finding/naive_solver.rs *)

MaxAmount == 3      \* largest sell amount, buy amount or balance of the inputs

\* BASE_UNIT is 10^18 in the source. The model scales it to 10^6 so that every
\* intermediate product stays inside TLC's integers; the amounts of the model
\* are a few units, far below BASE_UNIT at either scale, and at that size no
\* u128 or U256 operation of the solver overflows, so that the conversions
\* between the two widths keep the value. The one exception are the wide
\* inputs below, whose normalized price exceeds what a u128 holds.
BASE_UNIT == 1000000
BASE_PRICE == BASE_UNIT

\* The largest value of a u128, 2^128 - 1 in the source, which is about
\* 3.4 * 10^20 BASE_UNIT. The model scales the width as it scales BASE_UNIT:
\* its u128 is 30 bits wide and holds prices up to about 1073 BASE_UNIT.
U128_MAX == 2^30 - 1

\* u128 multiplication without overflow checks
wrapping_mul(a, b) == (a * b) % (U128_MAX + 1)

\* the u128 product of a and b does not fit a u128
mul_overflows(a, b) == a * b > U128_MAX

\* U256::as_u128, which panics on a value that does not fit
as_u128(v) == IF v > U128_MAX THEN [kind |-> "panic"] ELSE [kind |-> "some", val |-> v]

\* a value that does not fit is narrowed to the largest one that does
as_u128_checked_Saturating(v) ==
    [kind |-> "some", val |-> IF v > U128_MAX THEN U128_MAX ELSE v]

\* U256::as_u128_checked
as_u128_checked(v) == IF v > U128_MAX THEN [kind |-> "none"] ELSE [kind |-> "some", val |-> v]

Tokens == {0, 1, 2}
Amounts == 0..MaxAmount

\* fee.ratio as a fraction num/den: 0.001 and 0.5
FeeRatios == {[num |-> 1, den |-> 1000], [num |-> 1, den |-> 2]}
\* the tokens a fee is configured on: token 0, the fee token of the contract,
\* and another one
FeeTokens == {0, 1}
Fees == {NoFee} \cup {[kind |-> "fee", token |-> t, ratio |-> r] :
                          t \in FeeTokens, r \in FeeRatios}

\* the orders account a can have placed: sell and buy token differ
OrdersOf(a) ==
    {o \in [id : {0}, account_id : {a}, sell_token : Tokens, buy_token : Tokens,
            sell_amount : Amounts, buy_amount : Amounts] :
        o.sell_token # o.buy_token}

\* the account state in which the owner of orders[i] holds balances[i] of the
\* token the order sells, and nothing else
AccountStateOf(orders, balances) ==
    [p \in {<<orders[i].account_id, orders[i].sell_token>> : i \in DOMAIN orders} |->
        LET i == CHOOSE j \in DOMAIN orders :
                     p = <<orders[j].account_id, orders[j].sell_token>>
        IN balances[i]]

\* Option and panic outcomes of the solver's functions
Some(v) == [kind |-> "some", val |-> v]
None == [kind |-> "none"]
Panic == [kind |-> "panic"]

\* HashMap::insert
Insert(map, k, v) == [t \in DOMAIN map \cup {k} |-> IF t = k THEN v ELSE map[t]]

CeiledDiv(a, b) == (a + b - 1) \div b

Solution(prices, executed_orders) ==
    [kind |-> "solution", prices |-> prices, executed_orders |-> executed_orders]
Trivial == Solution(<<>>, <<>>)

\* the two amounts are stored in each other's field
ExecutedOrder_Swapped(account_id, order_id, sell_amount, buy_amount) ==
    [account_id |-> account_id, order_id |-> order_id,
     sell_amount |-> buy_amount, buy_amount |-> sell_amount]

ExecutedOrder(account_id, order_id, sell_amount, buy_amount) ==
    [account_id |-> account_id, order_id |-> order_id,
     sell_amount |-> sell_amount, buy_amount |-> buy_amount]

read_balance(state, token_id, account_id) ==
    IF <<account_id, token_id>> \in DOMAIN state THEN state[<<account_id, token_id>>] ELSE 0

\* (1.0 / fee.ratio) as u128: the cast truncates
fee_denominator(fee) == fee.ratio.den \div fee.ratio.num

\* the balance is not looked at
sufficient_seller_funds_Ignored(o, state) == TRUE

sufficient_seller_funds(o, state) ==
    read_balance(state, o.sell_token, o.account_id) >= o.sell_amount

opposite_tokens(a, b) ==
    a.buy_token = b.sell_token /\ a.sell_token = b.buy_token

\* the inequality alone decides
have_price_overlap_ZeroSellAllowed(a, b) ==
    a.buy_amount * b.buy_amount <= b.sell_amount * a.sell_amount

have_price_overlap(a, b) ==
    /\ a.sell_amount > 0
    /\ b.sell_amount > 0
    /\ a.buy_amount * b.buy_amount <= b.sell_amount * a.sell_amount

trades_fee_token(o, fee) ==
    o.buy_token = fee.token \/ o.sell_token = fee.token

attracts(a, b, fee) ==
    IF fee # NoFee /\ a.sell_token # fee.token /\ a.buy_token # fee.token
    THEN FALSE
    ELSE opposite_tokens(a, b) /\ have_price_overlap(a, b)

\* the right order is fully filled only when both comparisons are strict
match_compare_StrictRhs(a, b, state, fee) ==
    IF \/ ~sufficient_seller_funds(a, state)
       \/ ~sufficient_seller_funds(b, state)
       \/ ~attracts(a, b, fee)
       \/ ~(IF fee # NoFee THEN trades_fee_token(a, fee) ELSE TRUE)
    THEN "None"
    ELSE IF a.buy_amount <= b.sell_amount /\ a.sell_amount <= b.buy_amount
    THEN "LhsFullyFilled"
    ELSE IF a.buy_amount > b.sell_amount /\ a.sell_amount > b.buy_amount
    THEN "RhsFullyFilled"
    ELSE "BothFullyFilled"

match_compare(a, b, state, fee) ==
    IF \/ ~sufficient_seller_funds(a, state)
       \/ ~sufficient_seller_funds(b, state)
       \/ ~attracts(a, b, fee)
       \/ ~(IF fee # NoFee THEN trades_fee_token(a, fee) ELSE TRUE)
    THEN "None"
    ELSE IF a.buy_amount <= b.sell_amount /\ a.sell_amount <= b.buy_amount
    THEN "LhsFullyFilled"
    ELSE IF a.buy_amount >= b.sell_amount /\ a.sell_amount >= b.buy_amount
    THEN "RhsFullyFilled"
    ELSE "BothFullyFilled"

\* the last pair that matches is returned
find_first_match_LastPair(orders, state, fee) ==
    LET matching == {p \in (DOMAIN orders) \X (DOMAIN orders) :
                        /\ p[1] < p[2]
                        /\ match_compare(orders[p[1]], orders[p[2]], state, fee) # "None"}
    IN IF matching = {}
       THEN None
       ELSE LET p == CHOOSE q \in matching : \A r \in matching :
                         q[1] > r[1] \/ (q[1] = r[1] /\ q[2] >= r[2])
            IN [kind |-> "some",
                order_pair_type |-> match_compare(orders[p[1]], orders[p[2]], state, fee),
                orders |-> <<orders[p[1]], orders[p[2]]>>]

\* the first pair (x before y, in the order of the slice) that matches
find_first_match(orders, state, fee) ==
    LET matching == {p \in (DOMAIN orders) \X (DOMAIN orders) :
                        /\ p[1] < p[2]
                        /\ match_compare(orders[p[1]], orders[p[2]], state, fee) # "None"}
    IN IF matching = {}
       THEN None
       ELSE LET p == CHOOSE q \in matching : \A r \in matching :
                         q[1] < r[1] \/ (q[1] = r[1] /\ q[2] <= r[2])
            IN [kind |-> "some",
                order_pair_type |-> match_compare(orders[p[1]], orders[p[2]], state, fee),
                orders |-> <<orders[p[1]], orders[p[2]]>>]

order_with_buffer_for_fee(o, fee) ==
    IF fee = NoFee
    THEN o
    ELSE LET D == fee_denominator(fee)
         IN IF fee.token = o.buy_token
            THEN [o EXCEPT !.buy_amount = CeiledDiv(wrapping_mul(o.buy_amount, D), D - 1)]
            ELSE IF fee.token = o.sell_token
            THEN [o EXCEPT !.sell_amount = wrapping_mul(o.sell_amount, D - 1) \div D]
            ELSE o

\* the multiplication of order_with_buffer_for_fee overflows, which panics in
\* a build with overflow checks
buffer_overflows(o, fee) ==
    /\ fee # NoFee
    /\ \/ fee.token = o.buy_token /\ mul_overflows(o.buy_amount, fee_denominator(fee))
       \/ /\ fee.token # o.buy_token
          /\ fee.token = o.sell_token
          /\ mul_overflows(o.sell_amount, fee_denominator(fee) - 1)

create_executed_orders(first_match, fee) ==
    LET x == order_with_buffer_for_fee(first_match.orders[1], fee)
        y == order_with_buffer_for_fee(first_match.orders[2], fee)
        Ex(sell_amount, buy_amount) ==
            ExecutedOrder(x.account_id, x.id, sell_amount, buy_amount)
        Ey(sell_amount, buy_amount) ==
            ExecutedOrder(y.account_id, y.id, sell_amount, buy_amount)
    IN CASE first_match.order_pair_type = "LhsFullyFilled" ->
              [prices |-> Insert(Insert(<<>>, x.buy_token, x.sell_amount),
                                 y.buy_token, x.buy_amount),
               executed_orders |-> <<Ex(x.sell_amount, x.buy_amount),
                                     Ey(x.buy_amount, x.sell_amount)>>]
         [] first_match.order_pair_type = "RhsFullyFilled" ->
              [prices |-> Insert(Insert(<<>>, x.sell_token, y.sell_amount),
                                 y.sell_token, y.buy_amount),
               executed_orders |-> <<Ex(y.buy_amount, y.sell_amount),
                                     Ey(y.sell_amount, y.buy_amount)>>]
         [] first_match.order_pair_type = "BothFullyFilled" ->
              [prices |-> Insert(Insert(<<>>, y.buy_token, y.sell_amount),
                                 x.buy_token, x.sell_amount),
               executed_orders |-> <<Ex(x.sell_amount, y.sell_amount),
                                     Ey(y.sell_amount, x.sell_amount)>>]

\* the quotient is rounded up by adding one to the floor
normalize_price_FloorPlusOne(price, pre_normalized_fee_price) ==
    as_u128_checked(((price * BASE_PRICE) \div pre_normalized_fee_price) + 1)

normalize_price(price, pre_normalized_fee_price) ==
    as_u128_checked(CeiledDiv(price * BASE_PRICE, pre_normalized_fee_price))

\* the division by sell_price panics when sell_price is zero, and so does the
\* conversion of a quotient that does not fit a u128
executed_sell_amount(fee, exec_buy_amt, buy_price, sell_price) ==
    LET D == fee_denominator(fee)
    IN IF sell_price = 0
       THEN Panic
       ELSE as_u128(((((exec_buy_amt * buy_price) \div (D - 1)) * D) \div sell_price))

executed_buy_amount(fee, exec_sell_amt, buy_price, sell_price) ==
    LET D == fee_denominator(fee)
    IN IF buy_price = 0
       THEN Panic
       ELSE LET narrowed ==
                    as_u128(CeiledDiv(((exec_sell_amt * sell_price) \div D) * (D - 1),
                                      buy_price))
                exec_buy_amt == narrowed.val
                round_trip == executed_sell_amount(fee, exec_buy_amt, buy_price, sell_price)
            IN IF narrowed = Panic
               THEN Panic
               ELSE IF round_trip = Panic
               THEN Panic
               ELSE IF exec_sell_amt = round_trip.val
               THEN Some(exec_buy_amt)
               ELSE None

\* the order that does not sell the fee token keeps the buy amount of the match
apply_fee_BuyKept(order, fee, executed_order, prices) ==
    IF order.sell_token = fee.token
    THEN LET r == executed_sell_amount(fee, executed_order.buy_amount,
                                       prices[order.buy_token], BASE_PRICE)
         IN IF r.kind = "some"
            THEN Some([executed_order EXCEPT !.sell_amount = r.val])
            ELSE r
    ELSE Some(executed_order)

\* the recomputed sell amount is stored as the buy amount
apply_fee_WrongField(order, fee, executed_order, prices) ==
    IF order.sell_token = fee.token
    THEN LET r == executed_sell_amount(fee, executed_order.buy_amount,
                                       prices[order.buy_token], BASE_PRICE)
         IN IF r.kind = "some"
            THEN Some([executed_order EXCEPT !.buy_amount = r.val])
            ELSE r
    ELSE LET r == executed_buy_amount(fee, executed_order.sell_amount,
                                      BASE_PRICE, prices[order.sell_token])
         IN IF r.kind = "some"
            THEN Some([executed_order EXCEPT !.buy_amount = r.val])
            ELSE r

\* one iteration of the loop over the matched orders: the executed order
\* with the amount on the fee token's side recomputed
apply_fee(order, fee, executed_order, prices) ==
    IF order.sell_token = fee.token
    THEN LET r == executed_sell_amount(fee, executed_order.buy_amount,
                                       prices[order.buy_token], BASE_PRICE)
         IN IF r.kind = "some"
            THEN Some([executed_order EXCEPT !.sell_amount = r.val])
            ELSE r
    ELSE LET r == executed_buy_amount(fee, executed_order.sell_amount,
                                      BASE_PRICE, prices[order.sell_token])
         IN IF r.kind = "some"
            THEN Some([executed_order EXCEPT !.buy_amount = r.val])
            ELSE r

\* an executed order whose amount cannot be recomputed is returned as matched
create_solution_with_fee_KeepsMatch(orders, fee, executed_orders, prices) ==
    LET pre_normalized_fee_price ==
            IF fee.token \in DOMAIN prices THEN prices[fee.token] ELSE 0
    IN IF pre_normalized_fee_price = 0
       THEN Trivial
       ELSE LET checked == [t \in DOMAIN prices |->
                               normalize_price(prices[t], pre_normalized_fee_price)]
                normalized == [t \in DOMAIN prices |-> checked[t].val]
                first == apply_fee(orders[1], fee, executed_orders[1], normalized)
                second == apply_fee(orders[2], fee, executed_orders[2], normalized)
            IN IF \E t \in DOMAIN prices : checked[t].kind = "none"
               THEN Trivial
               ELSE CASE first.kind = "panic" -> Panic
                      [] first.kind # "panic" /\ second.kind = "panic" -> Panic
                      [] OTHER ->
                           Solution(normalized,
                                    <<IF first.kind = "some" THEN first.val
                                      ELSE executed_orders[1],
                                      IF second.kind = "some" THEN second.val
                                      ELSE executed_orders[2]>>)

create_solution_with_fee(orders, fee, executed_orders, prices) ==
    LET pre_normalized_fee_price ==
            IF fee.token \in DOMAIN prices THEN prices[fee.token] ELSE 0
    IN IF pre_normalized_fee_price = 0
       THEN Trivial
       ELSE LET checked == [t \in DOMAIN prices |->
                               normalize_price(prices[t], pre_normalized_fee_price)]
                normalized == [t \in DOMAIN prices |-> checked[t].val]
                first == apply_fee(orders[1], fee, executed_orders[1], normalized)
                second == apply_fee(orders[2], fee, executed_orders[2], normalized)
            IN IF \E t \in DOMAIN prices : checked[t].kind = "none"
               THEN Trivial
               ELSE CASE first.kind = "panic" -> Panic
                      [] first.kind = "none" -> Trivial
                      [] first.kind = "some" /\ second.kind = "panic" -> Panic
                      [] first.kind = "some" /\ second.kind = "none" -> Trivial
                      [] OTHER -> Solution(normalized, <<first.val, second.val>>)

find_prices(orders, state, fee) ==
    LET first_match == find_first_match(orders, state, fee)
    IN IF first_match.kind = "some"
       THEN LET pair == create_executed_orders(first_match, fee)
            IN IF sOverflowChecks /\ \E i \in {1, 2} :
                                        buffer_overflows(first_match.orders[i], fee)
               THEN Panic
               ELSE IF fee # NoFee
               THEN create_solution_with_fee(first_match.orders, fee,
                                             pair.executed_orders, pair.prices)
               ELSE Solution(pair.prices, pair.executed_orders)
       ELSE Trivial

\* the balances the owner of order o can hold of the token it sells
BalancesFor(o) == {0, o.sell_amount, MaxAmount}

\* the order lists given to the solver: none, one or two orders, each of its
\* own account
OrderLists ==
    {<<>>} \cup {<<x>> : x \in OrdersOf(1)}
           \cup {<<x, y>> : x \in OrdersOf(1), y \in OrdersOf(2)}

BalanceLists(orders) ==
    {b \in [DOMAIN orders -> Amounts] : \A i \in DOMAIN orders : b[i] \in BalancesFor(orders[i])}

\* the orders of the lists of three and four: account a sells 2 of a token
\* for 1 of another, so that two of them with opposite tokens overlap
ManyOrdersOf(a) ==
    {o \in OrdersOf(a) : o.sell_amount = 2 /\ o.buy_amount = 1}

\* lists of three and four orders, each of its own account
LongOrderLists ==
    {<<x, y, z>> : x \in ManyOrdersOf(1), y \in ManyOrdersOf(2), z \in ManyOrdersOf(3)}
    \cup
    {<<x, y>> \o <<z, w>> : x \in ManyOrdersOf(1), y \in ManyOrdersOf(2),
                           z \in ManyOrdersOf(3), w \in ManyOrdersOf(4)}

\* the amount whose price against one unit is the largest a u128 holds
WideAmount == U128_MAX \div BASE_PRICE

\* an order of account a that trades one unit against WideAmount
WideOrdersOf(a) ==
    {o \in [id : {0}, account_id : {a}, sell_token : {0, 1}, buy_token : {0, 1},
            sell_amount : {1, WideAmount}, buy_amount : {1, WideAmount}] :
        o.sell_token # o.buy_token /\ o.sell_amount # o.buy_amount}

\* pairs of wide orders, each owner holding what its order sells
WideOrderLists == {<<x, y>> : x \in WideOrdersOf(1), y \in WideOrdersOf(2)}

WideBalanceLists(orders) == {[i \in DOMAIN orders |-> orders[i].sell_amount]}

\* the least amount whose product with the fee denominator 1000 does not fit
\* a u128
HugeAmount == (U128_MAX \div 1000) + 1

\* account 1 sells one unit of token 1 for HugeAmount of token 0, account 2
\* sells HugeAmount of token 0 for one unit of token 1
HugeOrderLists ==
    {<<[id |-> 0, account_id |-> 1, sell_token |-> 1, buy_token |-> 0,
        sell_amount |-> 1, buy_amount |-> HugeAmount],
       [id |-> 0, account_id |-> 2, sell_token |-> 0, buy_token |-> 1,
        sell_amount |-> HugeAmount, buy_amount |-> 1]>>}

\* the fee of the tests: 0.001 on token 0
ProductionFee == [kind |-> "fee", token |-> 0, ratio |-> [num |-> 1, den |-> 1000]]

\* in the long lists an owner holds what its order sells, or nothing
LongBalanceLists(orders) ==
    {b \in [DOMAIN orders -> Amounts] :
        \A i \in DOMAIN orders : b[i] \in {0, orders[i].sell_amount}}

\* the solver is given a list of orders, an account state and a fee
SolverInit ==
    /\ UpdaterInit
    /\ PagedIdle
    /\ EngineIdle
    /\ \/ /\ sOrders \in OrderLists
          /\ \E b \in BalanceLists(sOrders) : sState = AccountStateOf(sOrders, b)
       \/ /\ sOrders \in LongOrderLists
          /\ \E b \in LongBalanceLists(sOrders) : sState = AccountStateOf(sOrders, b)
       \/ /\ sOrders \in WideOrderLists
          /\ \E b \in WideBalanceLists(sOrders) : sState = AccountStateOf(sOrders, b)
       \/ /\ sOrders \in HugeOrderLists
          /\ \E b \in WideBalanceLists(sOrders) : sState = AccountStateOf(sOrders, b)
          /\ sFee \in {NoFee, ProductionFee}
    /\ sFee \in Fees
    /\ sResult = NotRun
    /\ sOverflowChecks \in BOOLEAN

\* NaiveSolver::find_prices
FindPrices ==
    /\ sResult = NotRun
    /\ sResult' = find_prices(sOrders, sState, sFee)
    /\ UNCHANGED <<updaterVars, sOrders, sState, sFee, sOverflowChecks, pagedVars, engineVars>>

SolverNext == FindPrices

SolverSpec == SolverInit /\ [][SolverNext]_vars

----------------------------------------------------------------------------
(* Claims about the naive solver *)

\* the order an executed order belongs to: the one with its account and id
OrderOf(e) ==
    CHOOSE o \in {sOrders[i] : i \in DOMAIN sOrders} :
        o.account_id = e.account_id /\ o.id = e.order_id

\* C10: for every input and every executed order of the solution find_prices
\* returns, the executed sell amount is at most the sell amount of the order.
C10_ExecSellWithinOrder ==
    sResult.kind = "solution" =>
        \A i \in DOMAIN sResult.executed_orders :
            sResult.executed_orders[i].sell_amount
                <= OrderOf(sResult.executed_orders[i]).sell_amount

\* Solution::is_non_trivial: the solution executes at least one order
NonTrivial == sResult.kind = "solution" /\ sResult.executed_orders # <<>>

\* C11: for every input and every executed order of the solution find_prices
\* returns, the limit price of the order is honoured:
\* exec_sell * order.buy_amount <= exec_buy * order.sell_amount.
C11_LimitHonored ==
    sResult.kind = "solution" =>
        \A i \in DOMAIN sResult.executed_orders :
            LET e == sResult.executed_orders[i]
            IN e.sell_amount * OrderOf(e).buy_amount <= e.buy_amount * OrderOf(e).sell_amount

RECURSIVE SumSeq(_)
SumSeq(s) == IF s = <<>> THEN 0 ELSE Head(s) + SumSeq(Tail(s))

\* what the executed orders of the solution buy and sell of token t in total
TotalBought(t) ==
    SumSeq([i \in DOMAIN sResult.executed_orders |->
               LET e == sResult.executed_orders[i]
               IN IF OrderOf(e).buy_token = t THEN e.buy_amount ELSE 0])
TotalSold(t) ==
    SumSeq([i \in DOMAIN sResult.executed_orders |->
               LET e == sResult.executed_orders[i]
               IN IF OrderOf(e).sell_token = t THEN e.sell_amount ELSE 0])

\* C12: in every non-trivial solution, each token of the price map other than
\* the fee token (every token when there is no fee) is bought and sold in the
\* same total amount.
C12_TokenConservation ==
    NonTrivial =>
        \A t \in DOMAIN sResult.prices :
            (sFee = NoFee \/ t # sFee.token) => TotalBought(t) = TotalSold(t)

\* a solution with a fee in which the fee token itself is not conserved
C12_Witness ==
    /\ NonTrivial
    /\ sFee # NoFee
    /\ TotalBought(sFee.token) # TotalSold(sFee.token)
    /\ \E t \in DOMAIN sResult.prices : t # sFee.token /\ TotalSold(t) > 0

\* C13: with a fee, every non-trivial solution prices the fee token at
\* BASE_PRICE, whichever token the fee is on.
C13_FeeTokenAtBasePrice ==
    (NonTrivial /\ sFee # NoFee) =>
        /\ sFee.token \in DOMAIN sResult.prices
        /\ sResult.prices[sFee.token] = BASE_PRICE

\* a solution with the fee on token 1 and another token at another price
C13_Witness ==
    /\ NonTrivial
    /\ sFee # NoFee
    /\ sFee.token = 1
    /\ sResult.prices[1] = BASE_PRICE
    /\ \E t \in DOMAIN sResult.prices : sResult.prices[t] # BASE_PRICE

\* C14: every non-trivial solution prices token 0 at BASE_PRICE.
C14_TokenZeroAtBasePrice ==
    NonTrivial => (0 \in DOMAIN sResult.prices /\ sResult.prices[0] = BASE_PRICE)

\* C14 as amended: every non-trivial solution found with a fee on token 0
\* prices token 0 at BASE_PRICE.
C14_TokenZeroAtBasePriceWithFee ==
    (NonTrivial /\ sFee # NoFee /\ sFee.token = 0) =>
        (0 \in DOMAIN sResult.prices /\ sResult.prices[0] = BASE_PRICE)

\* a solution with the fee on token 0 whose orders' amounts of token 0 are
\* not BASE_PRICE
C14_Witness ==
    /\ NonTrivial
    /\ sFee # NoFee
    /\ sFee.token = 0
    /\ sResult.prices[0] = BASE_PRICE
    /\ \E t \in DOMAIN sResult.prices : t # 0 /\ sResult.prices[t] > BASE_PRICE

\* what the owner of order o holds of the token the order sells
Held(o) ==
    IF <<o.account_id, o.sell_token>> \in DOMAIN sState
    THEN sState[<<o.account_id, o.sell_token>>]
    ELSE 0

\* the conditions of the claim on an ordered pair (x, y) of the input
C15_Pair(x, y) ==
    /\ Held(x) >= x.sell_amount
    /\ Held(y) >= y.sell_amount
    /\ x.buy_token = y.sell_token
    /\ x.sell_token = y.buy_token
    /\ x.buy_amount * y.buy_amount <= x.sell_amount * y.sell_amount
    /\ (sFee # NoFee => (x.sell_token = sFee.token \/ x.buy_token = sFee.token))

\* C15: find_prices returns the trivial solution whenever no ordered pair of
\* the input has sufficient funds on both sides, opposite tokens, overlapping
\* limit prices and, with a fee, the fee token among its tokens.
C15_NoPairIsTrivial ==
    (/\ sResult # NotRun
     /\ ~\E i, j \in DOMAIN sOrders : i < j /\ C15_Pair(sOrders[i], sOrders[j]))
        => sResult = Trivial

\* two orders with opposite tokens and overlapping prices, one owner short of
\* funds: the trivial solution
C15_Witness ==
    /\ sResult = Trivial
    /\ Len(sOrders) = 2
    /\ sOrders[1].buy_token = sOrders[2].sell_token
    /\ sOrders[1].sell_token = sOrders[2].buy_token
    /\ sOrders[1].sell_amount > 0
    /\ sOrders[2].sell_amount > 0
    /\ sOrders[1].buy_amount * sOrders[2].buy_amount
           <= sOrders[1].sell_amount * sOrders[2].sell_amount
    /\ Held(sOrders[1]) >= sOrders[1].sell_amount
    /\ Held(sOrders[2]) < sOrders[2].sell_amount

\* the pairs of positions of the input that match
Matchable(i, j) ==
    /\ i < j
    /\ match_compare(sOrders[i], sOrders[j], sState, sFee) # "None"

\* the pair (i, j) comes before every matching pair of the input
FirstPair(i, j) ==
    /\ Matchable(i, j)
    /\ \A a, b \in DOMAIN sOrders :
           Matchable(a, b) => (i < a \/ (i = a /\ j <= b))

\* C22: find_first_match returns the matching pair with the smallest index i
\* of x and then the smallest index j > i of y, and a non-trivial solution
\* executes that pair and nothing else, x before y.
C22_FirstPairOnly ==
    /\ \A i, j \in DOMAIN sOrders :
           FirstPair(i, j) =>
               find_first_match(sOrders, sState, sFee).orders = <<sOrders[i], sOrders[j]>>
    /\ NonTrivial =>
           \E i, j \in DOMAIN sOrders :
               /\ FirstPair(i, j)
               /\ Len(sResult.executed_orders) = 2
               /\ sResult.executed_orders[1].account_id = sOrders[i].account_id
               /\ sResult.executed_orders[1].order_id = sOrders[i].id
               /\ sResult.executed_orders[2].account_id = sOrders[j].account_id
               /\ sResult.executed_orders[2].order_id = sOrders[j].id

\* four orders, the first two and the last two match and the solution is
\* not trivial
C22_Witness ==
    /\ NonTrivial
    /\ Len(sOrders) = 4
    /\ Matchable(1, 2)
    /\ Matchable(3, 4)

\* the match find_prices works on
FirstMatch == find_first_match(sOrders, sState, sFee)

\* C23: the case of the matched pair is the one its fee-buffered amounts give:
\* LhsFull iff x.buy <= y.sell and x.sell <= y.buy, RhsFull iff x.buy > y.sell
\* and x.sell > y.buy, BothFull in every other case.
C23_CaseFromBufferedAmounts ==
    (sResult # NotRun /\ FirstMatch.kind = "some") =>
        LET x == order_with_buffer_for_fee(FirstMatch.orders[1], sFee)
            y == order_with_buffer_for_fee(FirstMatch.orders[2], sFee)
        IN FirstMatch.order_pair_type =
               IF x.buy_amount <= y.sell_amount /\ x.sell_amount <= y.buy_amount
               THEN "LhsFullyFilled"
               ELSE IF x.buy_amount > y.sell_amount /\ x.sell_amount > y.buy_amount
               THEN "RhsFullyFilled"
               ELSE "BothFullyFilled"

\* C23, amended: the case of the matched pair is the one the amounts of the
\* orders as given, before the fee buffer, give: LhsFull iff x.buy <= y.sell
\* and x.sell <= y.buy; otherwise RhsFull iff x.buy >= y.sell and x.sell >=
\* y.buy; BothFull in every other case.
C23_CaseFromGivenAmounts ==
    (sResult # NotRun /\ FirstMatch.kind = "some") =>
        LET x == FirstMatch.orders[1]
            y == FirstMatch.orders[2]
        IN FirstMatch.order_pair_type =
               IF x.buy_amount <= y.sell_amount /\ x.sell_amount <= y.buy_amount
               THEN "LhsFullyFilled"
               ELSE IF x.buy_amount >= y.sell_amount /\ x.sell_amount >= y.buy_amount
               THEN "RhsFullyFilled"
               ELSE "BothFullyFilled"

\* find_prices ran with a fee on a pair with x.buy = y.sell and x.sell > y.buy
C23_Witness ==
    /\ sResult # NotRun
    /\ sFee # NoFee
    /\ FirstMatch.kind = "some"
    /\ FirstMatch.orders[1].buy_amount = FirstMatch.orders[2].sell_amount
    /\ FirstMatch.orders[1].sell_amount > FirstMatch.orders[2].buy_amount
    /\ FirstMatch.order_pair_type = "RhsFullyFilled"

\* a price map of two tokens
TwoPrices(t1, p1, t2, p2) == [t \in {t1, t2} |-> IF t = t1 THEN p1 ELSE p2]

\* an executed order of order o
Executed(o, sell_amount, buy_amount) ==
    [account_id |-> o.account_id, order_id |-> o.id,
     sell_amount |-> sell_amount, buy_amount |-> buy_amount]

\* C24: without a fee the solution for a matched pair (x, y) is: in the case
\* LhsFull prices[x.buy_token] = x.sell, prices[y.buy_token] = x.buy, x executes
\* (sell x.sell, buy x.buy) and y (sell x.buy, buy x.sell); in the case RhsFull
\* prices[x.sell_token] = y.sell, prices[y.sell_token] = y.buy, x executes (sell
\* y.buy, buy y.sell) and y (sell y.sell, buy y.buy); in the case BothFull
\* prices[x.buy_token] = x.sell, prices[y.buy_token] = y.sell, x executes (sell
\* x.sell, buy y.sell) and y (sell y.sell, buy x.sell).
C24_NoFeeTable ==
    (sResult # NotRun /\ sFee = NoFee /\ FirstMatch.kind = "some") =>
        LET x == FirstMatch.orders[1]
            y == FirstMatch.orders[2]
        IN CASE FirstMatch.order_pair_type = "LhsFullyFilled" ->
                  sResult = Solution(
                      TwoPrices(x.buy_token, x.sell_amount, y.buy_token, x.buy_amount),
                      <<Executed(x, x.sell_amount, x.buy_amount),
                        Executed(y, x.buy_amount, x.sell_amount)>>)
             [] FirstMatch.order_pair_type = "RhsFullyFilled" ->
                  sResult = Solution(
                      TwoPrices(x.sell_token, y.sell_amount, y.sell_token, y.buy_amount),
                      <<Executed(x, y.buy_amount, y.sell_amount),
                        Executed(y, y.sell_amount, y.buy_amount)>>)
             [] FirstMatch.order_pair_type = "BothFullyFilled" ->
                  sResult = Solution(
                      TwoPrices(x.buy_token, x.sell_amount, y.buy_token, y.sell_amount),
                      <<Executed(x, x.sell_amount, y.sell_amount),
                        Executed(y, y.sell_amount, x.sell_amount)>>)

\* find_prices ran without a fee on a pair in which both orders are fully
\* filled
C24_Witness ==
    /\ sResult # NotRun
    /\ sFee = NoFee
    /\ FirstMatch.kind = "some"
    /\ FirstMatch.order_pair_type = "BothFullyFilled"
    /\ Len(sResult.executed_orders) = 2

\* the executed orders of the solution whose order does not sell the fee token
BuyersOfFeeToken ==
    {i \in DOMAIN sResult.executed_orders :
        OrderOf(sResult.executed_orders[i]).sell_token # sFee.token}

\* C25: with the fee of D = 1000, the executed order whose sell token is not
\* the fee token buys ceil(exec_sell * BASE_PRICE * (D - 1) / (D *
\* prices[sell_token])) at the prices of the solution. D divides BASE_PRICE,
\* and the quotient is written with BASE_PRICE / D in the numerator.
C25_ExecBuyPriceInDenominator ==
    (sFee # NoFee /\ NonTrivial /\ fee_denominator(sFee) = 1000) =>
        \A i \in BuyersOfFeeToken :
            LET e == sResult.executed_orders[i]
                D == fee_denominator(sFee)
            IN e.buy_amount =
                   CeiledDiv(e.sell_amount * (BASE_PRICE \div D) * (D - 1),
                             sResult.prices[OrderOf(e).sell_token])

\* C25, amended: with a fee of denominator D, the executed order whose sell
\* token is not the fee token buys ceil(floor(exec_sell * prices[sell_token] /
\* D) * (D - 1) / BASE_PRICE) at the prices of the solution.
C25_ExecBuyPriceInNumerator ==
    (sFee # NoFee /\ NonTrivial) =>
        \A i \in BuyersOfFeeToken :
            LET e == sResult.executed_orders[i]
                D == fee_denominator(sFee)
            IN e.buy_amount =
                   CeiledDiv(((e.sell_amount * sResult.prices[OrderOf(e).sell_token]) \div D)
                                 * (D - 1),
                             BASE_PRICE)

\* a solution with the fee of D = 1000 in which the order that does not sell
\* the fee token sells at a price other than BASE_PRICE
C25_Witness ==
    /\ sFee # NoFee
    /\ NonTrivial
    /\ fee_denominator(sFee) = 1000
    /\ \E i \in BuyersOfFeeToken :
           /\ sResult.executed_orders[i].sell_amount > 0
           /\ sResult.prices[OrderOf(sResult.executed_orders[i]).sell_token] # BASE_PRICE

\* the prices and executed orders of the matched pair before the fee is applied
MatchedPair == create_executed_orders(FirstMatch, sFee)

\* the normalized price of token t of the matched pair, when it fits a u128
NormalizedPrice(t) ==
    normalize_price(MatchedPair.prices[t], MatchedPair.prices[sFee.token]).val

\* every normalized price of the matched pair fits a u128
PricesFit ==
    \A t \in DOMAIN MatchedPair.prices :
        normalize_price(MatchedPair.prices[t], MatchedPair.prices[sFee.token]).kind = "some"

\* the executed sell amount the formula of executed_sell_amount gives for
\* exec_buy at the buy price BASE_PRICE and the sell price price
SellAmountFor(exec_buy, price) ==
    (((exec_buy * BASE_PRICE) \div (fee_denominator(sFee) - 1)) * fee_denominator(sFee))
        \div price

\* the executed buy amount computed for exec_sell at the sell price price
BuyAmountFor(exec_sell, price) ==
    CeiledDiv(((exec_sell * price) \div fee_denominator(sFee)) * (fee_denominator(sFee) - 1),
              BASE_PRICE)

\* the prices of the matched pair can be normalized and the computed exec_buy
\* of the order that does not sell the fee token does not give back its
\* exec_sell
RoundTripFails ==
    /\ sFee # NoFee
    /\ FirstMatch.kind = "some"
    /\ sFee.token \in DOMAIN MatchedPair.prices
    /\ MatchedPair.prices[sFee.token] # 0
    /\ PricesFit
    /\ \E i \in {1, 2} :
           LET o == FirstMatch.orders[i]
               exec_sell == MatchedPair.executed_orders[i].sell_amount
               price == NormalizedPrice(o.sell_token)
           IN /\ o.sell_token # sFee.token
              /\ price # 0
              /\ SellAmountFor(BuyAmountFor(exec_sell, price), price) # exec_sell

\* C26: with a fee, in a non-trivial solution the exec_buy of the executed
\* order that does not sell the fee token gives back that order's exec_sell
\* under the formula of executed_sell_amount at the prices of the solution;
\* and when the computed exec_buy does not, find_prices returns the trivial
\* solution.
C26_RoundTripOrTrivial ==
    /\ (sFee # NoFee /\ NonTrivial) =>
           \A i \in BuyersOfFeeToken :
               LET e == sResult.executed_orders[i]
               IN SellAmountFor(e.buy_amount, sResult.prices[OrderOf(e).sell_token])
                      = e.sell_amount
    /\ (sResult # NotRun /\ RoundTripFails) => sResult = Trivial

\* find_prices ran on a matching pair whose round trip fails and returned the
\* trivial solution
C26_Witness ==
    /\ sResult = Trivial
    /\ RoundTripFails

\* the price of the fee token among the prices of the matched pair, 0 when it
\* has none
PreNormalizedFeePrice ==
    IF sFee.token \in DOMAIN MatchedPair.prices THEN MatchedPair.prices[sFee.token] ELSE 0

\* what normalize_price computes for token t before it is narrowed to a u128
WidePrice(t) == CeiledDiv(MatchedPair.prices[t] * BASE_PRICE, PreNormalizedFeePrice)

\* C27: with a fee and a matched pair, when the price of the fee token before
\* normalization is 0 or absent the result is the trivial solution; otherwise
\* the prices of a solution with executed orders are
\* ceil(p * BASE_PRICE / f), p being the price before normalization and f
\* that of the fee token; and when one of these values does not fit a u128
\* the result is the trivial solution.
C27_NormalizedOrTrivial ==
    (sResult # NotRun /\ sFee # NoFee /\ FirstMatch.kind = "some") =>
        /\ PreNormalizedFeePrice = 0 => sResult = Trivial
        /\ (PreNormalizedFeePrice # 0 /\ NonTrivial) =>
               /\ DOMAIN sResult.prices = DOMAIN MatchedPair.prices
               /\ \A t \in DOMAIN MatchedPair.prices : sResult.prices[t] = WidePrice(t)
        /\ (PreNormalizedFeePrice # 0
              /\ \E t \in DOMAIN MatchedPair.prices : WidePrice(t) > U128_MAX) =>
               sResult = Trivial

\* find_prices has run on a pair whose fee token has a price and whose other
\* token has a normalized price that does not fit a u128
C27_Witness ==
    /\ sResult # NotRun
    /\ sFee # NoFee
    /\ FirstMatch.kind = "some"
    /\ PreNormalizedFeePrice # 0
    /\ \E t \in DOMAIN MatchedPair.prices : WidePrice(t) > U128_MAX

\* C28: for every input find_prices returns a solution, never a panic, under
\* either build; and when the product of the fee buffer of a matched order
\* does not fit a u128 the result is the trivial solution, not one computed
\* from the wrapped product.
C28_NoPanicNoWrappedValue ==
    sResult # NotRun =>
        /\ sResult.kind = "solution"
        /\ (FirstMatch.kind = "some"
              /\ \E i \in {1, 2} : buffer_overflows(FirstMatch.orders[i], sFee)) =>
               sResult = Trivial

\* the overlap inequality alone: x.buy * y.buy <= x.sell * y.sell
OverlapInequality(x, y) ==
    x.buy_amount * y.buy_amount <= x.sell_amount * y.sell_amount

\* C29: two orders of which one has sell_amount = 0 are never matched: the
\* pair find_first_match returns has two positive sell amounts, and on an
\* input of two orders with opposite tokens of which one sells 0 find_prices
\* returns the trivial solution.
C29_ZeroSellNeverMatched ==
    /\ FirstMatch.kind = "some" =>
           \A i \in {1, 2} : FirstMatch.orders[i].sell_amount > 0
    /\ (/\ sResult # NotRun
        /\ Len(sOrders) = 2
        /\ opposite_tokens(sOrders[1], sOrders[2])
        /\ (sOrders[1].sell_amount = 0 \/ sOrders[2].sell_amount = 0)) =>
           sResult = Trivial

\* find_prices has run on two orders with opposite tokens that trade the fee
\* token and whose owners hold what they sell; one order sells 0 and the
\* overlap inequality holds
C29_Witness ==
    /\ sResult = Trivial
    /\ Len(sOrders) = 2
    /\ opposite_tokens(sOrders[1], sOrders[2])
    /\ sOrders[1].sell_amount = 0
    /\ sOrders[2].sell_amount > 0
    /\ OverlapInequality(sOrders[1], sOrders[2])
    /\ sufficient_seller_funds(sOrders[1], sState)
    /\ sufficient_seller_funds(sOrders[2], sState)
    /\ sFee # NoFee
    /\ trades_fee_token(sOrders[1], sFee)

\* the input of two orders with its orders exchanged
Reversed == <<sOrders[2], sOrders[1]>>

\* what find_prices returns on the reversed input
ReversedResult == find_prices(Reversed, sState, sFee)

\* C30: without a fee, find_prices on a two-order input [y, x] returns the
\* price map it returns on [x, y] and the same executed order for each order,
\* in the reversed order.
C30_ReversalKeepsOutcome ==
    (sResult # NotRun /\ sFee = NoFee /\ Len(sOrders) = 2) =>
        /\ ReversedResult.kind = sResult.kind
        /\ ReversedResult.prices = sResult.prices
        /\ Len(ReversedResult.executed_orders) = Len(sResult.executed_orders)
        /\ NonTrivial =>
               ReversedResult.executed_orders
                   = <<sResult.executed_orders[2], sResult.executed_orders[1]>>

\* find_prices has matched, without a fee, a pair it classifies as
\* LhsFullyFilled and, reversed, as RhsFullyFilled
C30_Witness ==
    /\ NonTrivial
    /\ sFee = NoFee
    /\ Len(sOrders) = 2
    /\ FirstMatch.order_pair_type = "LhsFullyFilled"
    /\ find_first_match(Reversed, sState, sFee).order_pair_type = "RhsFullyFilled"

\* the digits of a to the base 1024, lowest first
Digits(a) == <<a % 1024, (a \div 1024) % 1024, a \div (1024 * 1024)>>

RECURSIVE Carried(_, _)
Carried(s, c) ==
    IF s = <<>> THEN <<c>>
    ELSE <<(Head(s) + c) % 1024>> \o Carried(Tail(s), (Head(s) + c) \div 1024)

\* the product of two amounts as its digits to the base 1024: it is as wide
\* as the 256-bit product of two u128 of the source
ExactProduct(a, b) ==
    LET da == Digits(a)
        db == Digits(b)
        coefficient(k) ==
            SumSeq([i \in 1..3 |-> IF k - i + 2 \in 1..3 THEN da[i] * db[k - i + 2] ELSE 0])
    IN Carried([k \in 1..5 |-> coefficient(k)], 0)

\* C37: without a fee, every executed order of a non-trivial solution trades
\* at the prices of the solution exactly, exec_sell * prices[sell_token] =
\* exec_buy * prices[buy_token], and the price map holds the two tokens of
\* the matched pair and no other.
C37_NoFeeUniformPrice ==
    (NonTrivial /\ sFee = NoFee) =>
        /\ FirstMatch.kind = "some"
        /\ DOMAIN sResult.prices = {FirstMatch.orders[1].sell_token,
                                    FirstMatch.orders[1].buy_token}
        /\ Cardinality(DOMAIN sResult.prices) = 2
        /\ \A i \in DOMAIN sResult.executed_orders :
              LET e == sResult.executed_orders[i]
                  o == OrderOf(e)
              IN /\ o \in {FirstMatch.orders[1], FirstMatch.orders[2]}
                 /\ ExactProduct(e.sell_amount, sResult.prices[o.sell_token])
                        = ExactProduct(e.buy_amount, sResult.prices[o.buy_token])

\* find_prices has matched, without a fee, two orders of different limit
\* prices, and both trade at amounts other than the ones they asked for
C37_Witness ==
    /\ NonTrivial
    /\ sFee = NoFee
    /\ FirstMatch.order_pair_type = "BothFullyFilled"
    /\ \A i \in DOMAIN sResult.executed_orders :
          LET e == sResult.executed_orders[i]
          IN /\ e.buy_amount > OrderOf(e).buy_amount
             /\ e.sell_amount > 0
             /\ sResult.prices[OrderOf(e).sell_token] # sResult.prices[OrderOf(e).buy_token]

\* C38: for every executed order of a solution find_prices returns, with or
\* without a fee, the executed sell amount is at most the balance the owner
\* holds of the sell token in the account state given to find_prices, a
\* missing entry counting as 0.
C38_ExecSellWithinBalance ==
    sResult.kind = "solution" =>
        \A i \in DOMAIN sResult.executed_orders :
            LET e == sResult.executed_orders[i]
            IN e.sell_amount <= read_balance(sState, OrderOf(e).sell_token, e.account_id)

----------------------------------------------------------------------------
(* The paginated reader: driver/src/orderbook/mod.rs. The loop of
   get_auction_data is in the sources; PaginatedAuctionDataReader
   (orderbook/auction_data_reader.rs) and the contract's view call are not,
   and follow spec.md 4.2 *)

MaxUserOrders == 3  \* orders one user has in the contract
MaxPageSize == 4    \* largest page_size
MaxCalls == 7       \* view calls one get_auction_data is followed for

Users == {1, 2}
PagedSellTokens == {0, 1}

\* the errors a view call can return
RpcErrors == {"timeout", "reverted"}

\* the largest u16
U16_MAX == 65535

\* the sell_token_balance the records of (owner, token) carry
BalanceSnapshot(owner, token) == (2 * owner) + token + 1

\* the records of one user: its orders, in the order of their index
RecordsOf(owner, tokens) ==
    [i \in DOMAIN tokens |->
        [owner |-> owner, index |-> i - 1, sell_token |-> tokens[i],
         sell_token_balance |-> BalanceSnapshot(owner, tokens[i])]]

\* the sell tokens of the orders of one user
TokenLists == UNION {[1..n -> PagedSellTokens] : n \in 0..MaxUserOrders}

\* the orderbooks of the contract: the records of user 1, then of user 2
Contracts == {RecordsOf(1, a) \o RecordsOf(2, b) : a \in TokenLists, b \in TokenLists}

\* get_auction_data_paginated: up to page_size records, the orders of
\* previous_page_user from previous_page_user_offset on, then those of the
\* users after it
get_auction_data_paginated(contract, page_size, previous_page_user, previous_page_user_offset) ==
    LET Follows(r) ==
            \/ r.owner > previous_page_user
            \/ r.owner = previous_page_user /\ r.index >= previous_page_user_offset
        rest == SelectSeq(contract, Follows)
    IN SubSeq(rest, 1, IF Len(rest) < page_size THEN Len(rest) ELSE page_size)

\* the record decoded into an Order
DecodeOrder(r) == [account_id |-> r.owner, id |-> r.index, sell_token |-> r.sell_token]

\* PaginatedAuctionDataReader::apply_page
apply_page(reader, page, page_size) ==
    LET pairs == {<<page[i].owner, page[i].sell_token>> : i \in DOMAIN page}
        first(p) == CHOOSE i \in DOMAIN page :
                        /\ <<page[i].owner, page[i].sell_token>> = p
                        /\ \A j \in DOMAIN page :
                               <<page[j].owner, page[j].sell_token>> = p => i <= j
        before(p) == IF p \in DOMAIN reader.account_state
                     THEN reader.account_state[p] ELSE 0
        last_user == page[Len(page)].owner
    IN [account_state |->
            [p \in DOMAIN reader.account_state \cup pairs |->
                IF p \in pairs
                THEN before(p) + page[first(p)].sell_token_balance
                ELSE before(p)],
        orders |-> reader.orders \o [i \in DOMAIN page |-> DecodeOrder(page[i])],
        previous_page_user |->
            IF Len(page) = page_size THEN last_user ELSE reader.previous_page_user,
        previous_page_user_offset |->
            IF Len(page) = page_size
            THEN Cardinality({i \in DOMAIN page : page[i].owner = last_user})
            ELSE reader.previous_page_user_offset,
        done |-> Len(page) < page_size]

\* PaginatedAuctionDataReader::get_auction_data
ReaderAuctionData(reader) ==
    [kind |-> "ok", account_state |-> reader.account_state, orders |-> reader.orders]

\* a reader over some orderbook of the contract, with some page size
PagedInit ==
    /\ UpdaterInit
    /\ SolverIdle
    /\ EngineIdle
    /\ pContract \in Contracts
    /\ pPageSize \in 1..MaxPageSize
    /\ pReader = NewReader
    /\ pCalls = 0
    /\ pError = "none"
    /\ pResult = NotRun

\* one iteration of the loop: next_page gives the cursor, the view call
\* returns the page, apply_page takes it in
\* an offset beyond the u16 range panics in the conversion (expect) and no
\* call is made
Paged_NextPage ==
    /\ pResult = NotRun
    /\ ~pReader.done
    /\ pCalls < MaxCalls
    /\ IF pReader.previous_page_user_offset > U16_MAX
       THEN /\ pResult' = [kind |-> "panic"]
            /\ UNCHANGED <<pReader, pCalls>>
       ELSE /\ pReader' = apply_page(pReader,
                                     get_auction_data_paginated(pContract, pPageSize,
                                         pReader.previous_page_user,
                                         pReader.previous_page_user_offset),
                                     pPageSize)
            /\ pCalls' = pCalls + 1
            /\ UNCHANGED pResult
    /\ UNCHANGED <<updaterVars, solverVars, engineVars, pContract, pPageSize, pError>>

\* the reader's result is returned in place of the error
Paged_CallFails_PartialSnapshot ==
    /\ pResult = NotRun
    /\ ~pReader.done
    /\ pCalls < MaxCalls
    /\ pReader.previous_page_user_offset <= U16_MAX
    /\ \E e \in RpcErrors :
           /\ pError' = e
           /\ pResult' = ReaderAuctionData(pReader)
    /\ pCalls' = pCalls + 1
    /\ UNCHANGED <<updaterVars, solverVars, engineVars, pContract, pPageSize, pReader>>

\* the view call fails: the ? operator returns the error
Paged_CallFails ==
    /\ pResult = NotRun
    /\ ~pReader.done
    /\ pCalls < MaxCalls
    /\ pReader.previous_page_user_offset <= U16_MAX
    /\ \E e \in RpcErrors :
           /\ pError' = e
           /\ pResult' = [kind |-> "err", error |-> e]
    /\ pCalls' = pCalls + 1
    /\ UNCHANGED <<updaterVars, solverVars, engineVars, pContract, pPageSize, pReader>>

\* next_page gives None: Ok(reader.get_auction_data())
Paged_Return ==
    /\ pResult = NotRun
    /\ pReader.done
    /\ pResult' = ReaderAuctionData(pReader)
    /\ UNCHANGED <<updaterVars, solverVars, engineVars, pContract, pPageSize, pReader, pCalls,
                   pError>>

PagedNext ==
    \/ Paged_NextPage
    \/ Paged_CallFails
    \/ Paged_Return

PagedSpec == PagedInit /\ [][PagedNext]_vars

----------------------------------------------------------------------------
(* Claims about the paginated reader *)

\* what get_auction_data returns with a page size larger than the orderbook:
\* the one page with every record is short, and the read ends with it
C16_OnePage ==
    ReaderAuctionData(apply_page(NewReader, pContract, Len(pContract) + 1))

\* C16: get_auction_data returns the same (balances, orders) for every page
\* size k >= 1 over the same orderbook, also when the orders of one user span
\* several pages: what it returns is what it returns with one page.
C16_PageSizeIndependent ==
    pResult.kind = "ok" =>
        /\ pResult.account_state = C16_OnePage.account_state
        /\ pResult.orders = C16_OnePage.orders

\* the page the view call returns at the cursor of reader
NextPageOf(reader) ==
    get_auction_data_paginated(pContract, pPageSize, reader.previous_page_user,
                               reader.previous_page_user_offset)

\* the cursor of reader b is past the cursor of reader a
CursorAdvanced(a, b) ==
    \/ b.previous_page_user > a.previous_page_user
    \/ /\ b.previous_page_user = a.previous_page_user
       /\ b.previous_page_user_offset > a.previous_page_user_offset

\* the orders of the contract, each once, in the order of the contract
EveryOrderOnce == [i \in DOMAIN pContract |-> DecodeOrder(pContract[i])]

\* C31: the read loop ends exactly with a page of fewer than page_size
\* records, every full page moves the cursor (last_user, last_user_offset)
\* strictly forward, and the orders get_auction_data returns are the orders
\* of the contract, each exactly once, also when their number is a multiple
\* of page_size.
C31_EveryOrderReadOnce ==
    /\ [](pResult.kind = "ok" => pResult.orders = EveryOrderOnce)
    /\ [][pReader' # pReader =>
              /\ pReader'.done <=> Len(NextPageOf(pReader)) < pPageSize
              /\ Len(NextPageOf(pReader)) = pPageSize =>
                     CursorAdvanced(pReader, pReader')]_vars

\* the (owner, sell_token) pairs of the records of the contract
ContractPairs == {<<pContract[i].owner, pContract[i].sell_token>> : i \in DOMAIN pContract}

\* C32: in the snapshot get_auction_data returns, the balance of every
\* (owner, sell_token) pair of the contract is the sell_token_balance its
\* records carry, counted once however many orders the pair has.
C32_BalanceCountedOnce ==
    pResult.kind = "ok" =>
        /\ DOMAIN pResult.account_state = ContractPairs
        /\ \A p \in ContractPairs :
               pResult.account_state[p] = BalanceSnapshot(p[1], p[2])

----------------------------------------------------------------------------
(* The orderbook engine. handle_event (streamed/updating_orderbook.rs) hands
   every event to Orderbook::handle_event_data; the Orderbook itself
   (streamed/orderbook.rs) is not in the sources, its event application and
   get_auction_data follow spec.md 3 and 4.3. Amounts are mathematical
   integers. The events are those of one chain: no block is replaced, every
   block holds one event and every batch one block. *)

MaxLogLen == 4          \* events the contract emits
MaxRedeliveries == 1    \* deliveries of an event that was delivered before

BATCH_DURATION == 300

\* the batches asked for: those of the events and the one after
LastQueryBatch == MaxLogLen + 1
QueryBatches == 1..LastQueryBatch

\* the batch a block timestamp falls in
current_batch(block_timestamp) == block_timestamp \div BATCH_DURATION

\* what the contract emits in a block of the given batch, all of one owner:
\* deposits and withdrawals of token 1, and two orders selling token 1 for
\* token 0; the order of index 1 is placed and never traded, cancelled or
\* deleted
EventData(batch) ==
    {[type |-> "Deposit", owner |-> 1, token |-> 1, amount |-> 2, batch_id |-> batch],
     [type |-> "WithdrawRequest", owner |-> 1, token |-> 1, amount |-> 1, batch_id |-> batch],
     [type |-> "Withdraw", owner |-> 1, token |-> 1, amount |-> 1],
     [type |-> "OrderCancellation", owner |-> 1, index |-> 0],
     [type |-> "OrderDeletion", owner |-> 1, index |-> 0],
     [type |-> "SolutionSubmission", batch |-> batch,
      trades |-> <<[owner |-> 1, order_id |-> 0, exec_sell |-> 1, exec_buy |-> 1]>>]}
    \cup
    {[type |-> "OrderPlacement", owner |-> 1, index |-> i, buy_tok |-> 0, sell_tok |-> 1,
      valid_from |-> batch, valid_until |-> LastQueryBatch, numer |-> 2, denom |-> 2] :
        i \in {0, 1}}

\* the events of the block at the given height: the block hash stands for the
\* height, the block is the one of the batch of its height and its timestamp
\* the start of that batch
Events(height) ==
    {[data |-> d, block_number |-> height, log_index |-> 0, block_hash |-> height,
      block_timestamp |-> height * BATCH_DURATION] : d \in EventData(height)}

Lookup(map, k) == IF k \in DOMAIN map THEN map[k] ELSE 0

RECURSIVE SumAmounts(_)
SumAmounts(s) == IF s = <<>> THEN 0 ELSE Head(s).amount + SumAmounts(Tail(s))

\* an order is active in batch b
Active(o, b) ==
    /\ o.valid_from <= b
    /\ b <= o.valid_until
    /\ o.remaining_amount > 0
    /\ o.remaining_amount >= o.numer

\* OrderCancellation: the order is valid up to the batch before the event's
cancel_order(o, block_timestamp) ==
    [o EXCEPT !.valid_until = current_batch(block_timestamp) - 1]

\* the trade's sell amount is taken from every order of the owner
ApplyTrade_EveryOrder(bk, t) ==
    LET key == <<t.owner, t.order_id>>
    IN IF key \notin DOMAIN bk.orders
       THEN bk
       ELSE LET o == bk.orders[key]
                buy == <<t.owner, o.buy_tok>>
                sell == <<t.owner, o.sell_tok>>
                credited == Insert(bk.liquid, buy, Lookup(bk.liquid, buy) + t.exec_buy)
            IN [bk EXCEPT
                   !.orders = [k \in DOMAIN bk.orders |->
                                  IF k[1] = t.owner
                                  THEN [bk.orders[k] EXCEPT !.remaining_amount = @ - t.exec_sell]
                                  ELSE bk.orders[k]],
                   !.liquid = Insert(credited, sell, Lookup(credited, sell) - t.exec_sell)]

\* one trade of a solution submission
ApplyTrade(bk, t) ==
    LET key == <<t.owner, t.order_id>>
    IN IF key \notin DOMAIN bk.orders
       THEN bk
       ELSE LET o == bk.orders[key]
                buy == <<t.owner, o.buy_tok>>
                sell == <<t.owner, o.sell_tok>>
                credited == Insert(bk.liquid, buy, Lookup(bk.liquid, buy) + t.exec_buy)
            IN [bk EXCEPT
                   !.orders[key].remaining_amount = @ - t.exec_sell,
                   !.liquid = Insert(credited, sell, Lookup(credited, sell) - t.exec_sell)]

RECURSIVE ApplyTrades(_, _)
ApplyTrades(bk, trades) ==
    IF trades = <<>> THEN bk ELSE ApplyTrades(ApplyTrade(bk, Head(trades)), Tail(trades))

\* the effect of an event that has not been applied before (spec.md 4.3, table)
Effect(bk, ev) ==
    LET d == ev.data
    IN CASE d.type = "OrderPlacement" ->
              IF <<d.owner, d.index>> \in DOMAIN bk.orders
              THEN [bk EXCEPT !.violated = TRUE]
              ELSE [bk EXCEPT !.orders =
                       Insert(@, <<d.owner, d.index>>,
                              [owner |-> d.owner, index |-> d.index,
                               buy_tok |-> d.buy_tok, sell_tok |-> d.sell_tok,
                               valid_from |-> d.valid_from, valid_until |-> d.valid_until,
                               numer |-> d.numer, denom |-> d.denom,
                               remaining_amount |-> d.denom])]
         [] d.type = "OrderCancellation" ->
              IF <<d.owner, d.index>> \in DOMAIN bk.orders
              THEN [bk EXCEPT !.orders[<<d.owner, d.index>>] =
                                  cancel_order(@, ev.block_timestamp)]
              ELSE bk
         [] d.type = "OrderDeletion" ->
              [bk EXCEPT !.orders =
                  [k \in DOMAIN bk.orders \ {<<d.owner, d.index>>} |-> bk.orders[k]]]
         [] d.type = "Deposit" ->
              [bk EXCEPT !.deposits = Append(@, d)]
         [] d.type = "WithdrawRequest" ->
              [bk EXCEPT !.withdrawals = Append(@, d)]
         [] d.type = "Withdraw" ->
              LET key == <<d.owner, d.token>>
                  balance == Lookup(bk.liquid, key)
                  debit == IF balance < d.amount THEN balance ELSE d.amount
                  Other(w) == <<w.owner, w.token>> # key
              IN [bk EXCEPT
                     !.liquid = IF key \in DOMAIN bk.liquid
                                THEN Insert(@, key, balance - debit) ELSE @,
                     !.withdrawals = SelectSeq(@, Other)]
         [] d.type = "SolutionSubmission" ->
              ApplyTrades(bk, d.trades)

\* the event is applied without looking at what was applied before
handle_event_data_NoRecord(bk, ev) == Effect(bk, ev)

\* Orderbook::handle_event_data (spec.md 4.3, apply_event): an event with the
\* (block_hash, log_index) of an applied one leaves the state as it is
handle_event_data(bk, ev) ==
    IF <<ev.block_hash, ev.log_index>> \in bk.seen
    THEN bk
    ELSE Effect([bk EXCEPT !.seen = @ \cup {<<ev.block_hash, ev.log_index>>}], ev)

\* the pending entries of (owner, token) of the given batches
PendingSum(entries, owner, token, batches) ==
    LET Mine(e) == e.owner = owner /\ e.token = token /\ e.batch_id \in batches
    IN SumAmounts(SelectSeq(entries, Mine))

\* get_auction_data, the balance of (owner, token) (spec.md 4.3)
balance_at(bk, owner, token, batch_index) ==
    Lookup(bk.liquid, <<owner, token>>)
    + PendingSum(bk.deposits, owner, token, {d \in 0..batch_index : d < batch_index})
    - PendingSum(bk.withdrawals, owner, token, {w \in 0..batch_index : w <= batch_index})

BookOwners == {1}
BookTokens == {0, 1}

\* the order keys in the order of (owner, index); the events are of one owner
\* and one index
RECURSIVE SortedKeys(_)
SortedKeys(keys) ==
    IF keys = {} THEN <<>>
    ELSE LET k == CHOOSE x \in keys :
                      \A y \in keys : x[1] < y[1] \/ (x[1] = y[1] /\ x[2] <= y[2])
         IN <<k>> \o SortedKeys(keys \ {k})

\* Orderbook::get_auction_data (spec.md 4.3)
get_auction_data(bk, batch_index) ==
    [balances |-> [k \in BookOwners \X BookTokens |->
                      balance_at(bk, k[1], k[2], batch_index)],
     orders |-> LET keys == {k \in DOMAIN bk.orders : Active(bk.orders[k], batch_index)}
                    sorted == SortedKeys(keys)
                IN [i \in DOMAIN sorted |-> bk.orders[sorted[i]]]]

\* the contract emits a solution only for trades its orderbook can carry: the
\* traded order exists, has the amount left, and its owner the balance
Emittable(bk, ev) ==
    ev.data.type = "SolutionSubmission" =>
        \A i \in DOMAIN ev.data.trades :
            LET t == ev.data.trades[i]
                key == <<t.owner, t.order_id>>
            IN /\ key \in DOMAIN bk.orders
               /\ bk.orders[key].remaining_amount >= t.exec_sell
               /\ balance_at(bk, t.owner, bk.orders[key].sell_tok, ev.data.batch + 1)
                      >= t.exec_sell

BookInit ==
    /\ UpdaterInit
    /\ SolverIdle
    /\ PagedIdle
    /\ book = EmptyBook
    /\ bLog = <<>>
    /\ bRedeliveries = 0
    /\ bSnapshot = NotRun

\* handle_event on the next event of the chain
Book_HandleEvent ==
    /\ bSnapshot = NotRun
    /\ Len(bLog) < MaxLogLen
    /\ \E ev \in Events(Len(bLog) + 1) :
         /\ Emittable(book, ev)
         /\ book' = handle_event_data(book, ev)
         /\ bLog' = Append(bLog, ev)
    /\ UNCHANGED <<updaterVars, solverVars, pagedVars, bRedeliveries, bSnapshot>>

\* handle_event on an event that was delivered before: the past-events fetch
\* and the live stream both deliver it
Book_Redeliver ==
    /\ bSnapshot = NotRun
    /\ bRedeliveries < MaxRedeliveries
    /\ \E i \in DOMAIN bLog : book' = handle_event_data(book, bLog[i])
    /\ bRedeliveries' = bRedeliveries + 1
    /\ UNCHANGED <<updaterVars, solverVars, pagedVars, bLog, bSnapshot>>

\* get_auction_data at a batch
Book_GetAuctionData ==
    /\ bSnapshot = NotRun
    /\ bLog # <<>>
    /\ \E b \in QueryBatches : 
         bSnapshot' = [kind |-> "ok", batch_index |-> b, data |-> get_auction_data(book, b)]
    /\ UNCHANGED <<updaterVars, solverVars, pagedVars, book, bLog, bRedeliveries>>

BookNext == Book_HandleEvent \/ Book_Redeliver \/ Book_GetAuctionData

BookSpec == BookInit /\ [][BookNext]_vars

\* the orderbook after the events of the log, applied in order from the start
RECURSIVE Replay(_)
Replay(log) ==
    IF log = <<>> THEN EmptyBook
    ELSE handle_event_data(Replay(SubSeq(log, 1, Len(log) - 1)), log[Len(log)])

C19_StrictlyEarlierBatchesCount ==
    bSnapshot.kind = "ok" =>
        \A k \in BookOwners \X BookTokens :
            LET Before == {x \in 0..bSnapshot.batch_index : x < bSnapshot.batch_index}
            IN bSnapshot.data.balances[k] =
                   Lookup(book.liquid, k)
                   + PendingSum(book.deposits, k[1], k[2], Before)
                   - PendingSum(book.withdrawals, k[1], k[2], Before)

\* the events applied so far say that the order of the key is deleted: a
\* deletion with no placement after it
Deleted(events, key) ==
    \E i \in DOMAIN events :
        /\ events[i].data.type = "OrderDeletion"
        /\ <<events[i].data.owner, events[i].data.index>> = key
        /\ \A j \in DOMAIN events :
               (j > i /\ events[j].data.type = "OrderPlacement")
                   => <<events[j].data.owner, events[j].data.index>> # key

\* the events applied so far say that the order of the key was cancelled in
\* a batch before b: placed, not deleted since, and cancelled in between
CancelledBefore(events, key, b) ==
    \E j, i \in DOMAIN events :
        /\ j < i
        /\ events[j].data.type = "OrderPlacement"
        /\ <<events[j].data.owner, events[j].data.index>> = key
        /\ events[i].data.type = "OrderCancellation"
        /\ <<events[i].data.owner, events[i].data.index>> = key
        /\ current_batch(events[i].block_timestamp) < b
        /\ \A l \in DOMAIN events :
               (l > j /\ events[l].data.type = "OrderDeletion")
                   => <<events[l].data.owner, events[l].data.index>> # key

\* C20: get_auction_data(b) returns, each once, the stored orders with
\* valid_from <= b <= valid_until, remaining_amount > 0 and remaining_amount >=
\* price_numerator, and no others; none of them is deleted or was cancelled in
\* a batch before b.
C20_ExactlyActiveOrders ==
    bSnapshot.kind = "ok" =>
        LET b == bSnapshot.batch_index
            orders == bSnapshot.data.orders
            returned == {orders[i] : i \in DOMAIN orders}
            events == bLog
        IN /\ returned =
                  {book.orders[k] : k \in
                      {x \in DOMAIN book.orders :
                          /\ book.orders[x].valid_from <= b
                          /\ b <= book.orders[x].valid_until
                          /\ book.orders[x].remaining_amount > 0
                          /\ book.orders[x].remaining_amount >= book.orders[x].numer}}
           /\ Cardinality(returned) = Len(orders)
           /\ \A o \in returned :
                  /\ ~Deleted(events, <<o.owner, o.index>>)
                  /\ ~CancelledBefore(events, <<o.owner, o.index>>, b)

\* the step applies a solution submission: the log grows by one
SolutionApplied ==
    /\ Len(bLog') = Len(bLog) + 1
    /\ bLog'[Len(bLog')].data.type = "SolutionSubmission"

\* the orders the trades of a solution submission list
Listed(d) == {<<d.trades[i].owner, d.trades[i].order_id>> : i \in DOMAIN d.trades}

\* C21: every stored order has remaining_amount <= price_denominator in every
\* state the applied events lead to, and a step that applies a solution
\* submission keeps the stored orders and changes remaining_amount of none but
\* the orders its trades list.
C21_RemainingWithinBudget ==
    /\ [](\A k \in DOMAIN book.orders :
              book.orders[k].remaining_amount <= book.orders[k].denom)
    /\ [][SolutionApplied =>
              /\ DOMAIN book'.orders = DOMAIN book.orders
              /\ \A k \in DOMAIN book.orders \ Listed(bLog'[Len(bLog')].data) :
                     book'.orders[k].remaining_amount = book.orders[k].remaining_amount]_vars

\* two orders are stored and a solution submission has traded the first of
\* them only
C21_Witness ==
    /\ DOMAIN book.orders = {<<1, 0>>, <<1, 1>>}
    /\ \E i \in DOMAIN bLog : bLog[i].data.type = "SolutionSubmission"
    /\ book.orders[<<1, 0>>].remaining_amount < book.orders[<<1, 0>>].denom
    /\ book.orders[<<1, 1>>].remaining_amount = book.orders[<<1, 1>>].denom

====
